---- MODULE Spec2Model ----
(***************************************************************************)
(* GitHub-backed skill synchronisation of OpenBrowserClaw                   *)
(* (skill-management.ts): single and batch install, update check, force     *)
(* update, manual skill operations and collection discovery, over an        *)
(* abstract remote repository and an abstract hierarchical local store.     *)
(*                                                                          *)
(* Paths are sequences of path segments ("skills/foo/SKILL.md" is           *)
(* <<"skills","foo","SKILL.md">>); file bytes are records [name, v] where   *)
(* name is the name a frontmatter parser finds in them ("" when none).      *)
(***************************************************************************)
EXTENDS Integers, Sequences, FiniteSets, TLC

\* ------------------------------------------------------------------ bounds
MaxBatch == 3
MaxChecks == 2

\* --------------------------------------------------------------- constants
SOURCE_METADATA_FILENAME == <<".openbrowserclaw-source.json">>
SKILL_MD == "SKILL.md"
Null == "null"
NoName == ""

\* The unit name of the repository revisions and of manual operations; bar
\* is the name of a second remote directory.
Names == {"foo"}
\* Unit names of the collection used for batch installs (one directory each).
UnitNames == <<"alpha", "beta", "delta", "gamma", "kappa", "omega", "sigma">>
AllNames == Names \cup {"bar"} \cup {UnitNames[i] : i \in 1..Len(UnitNames)}

\* Path segments of the model in String.prototype.localeCompare order.
SegOrder ==
  << ".gitkeep", ".openbrowserclaw-source.json", "a.md", "alpha", "assets",
     "b.md", "bar", "beta", "delta", "foo", "gamma", "kappa", "omega",
     "references", "refs", "scripts", "sigma", "SKILL.md", "skills" >>

SegRank(s) == CHOOSE i \in 1..Len(SegOrder) : SegOrder[i] = s

RECURSIVE PathLess(_, _)
\* a.path.localeCompare(b.path) < 0
PathLess(p, q) ==
  IF q = <<>> THEN FALSE
  ELSE IF p = <<>> THEN TRUE
  ELSE IF Head(p) = Head(q) THEN PathLess(Tail(p), Tail(q))
  ELSE SegRank(Head(p)) < SegRank(Head(q))

\* an array that is returned in the order of its pushes
KeepPushOrder(files) == files

\* files.sort((a, b) => a.path.localeCompare(b.path))
SortByPath(files) == SortSeq(files, LAMBDA x, y : PathLess(x.path, y.path))

Range(s) == {s[i] : i \in DOMAIN s}

IsPrefix(p, q) == Len(p) <= Len(q) /\ SubSeq(q, 1, Len(p)) = p

\* ------------------------------------------------------------ file contents
\* bytes of a SKILL.md whose frontmatter declares name n (version v)
Manifest(n, v) == [name |-> n, v |-> v]
\* bytes of any other file
Raw(v) == [name |-> NoName, v |-> v]

\* computeGitBlobSha: a digest of "blob <len>\0<bytes>", injective on the
\* bytes of the model.
computeGitBlobSha(bytes) == <<"sha1", "blob", bytes.name, bytes.v>>

\* Local file contents: raw bytes, or the JSON text of a metadata record.
BytesContent(b) == [kind |-> "bytes", b |-> b]
JsonContent(m) == [kind |-> "json", meta |-> m]

\* ----------------------------------------------------------- error values
Err(prefix, arg) == [prefix |-> prefix, arg |-> arg]
E_EXISTS == "Skill already exists:"
E_NETWORK == "GitHub directory request failed"
E_NO_MANIFEST == "Target directory must contain SKILL.md"
E_NO_FRONTMATTER == "SKILL.md frontmatter must define name"
E_NAME_MISMATCH == "GitHub directory name must match the skill name declared in SKILL.md"
E_NOT_TRACKED == "Skill is not GitHub-installed:"
E_NAME_CHANGED == "Remote skill name changed from"
E_WRITE == "local write failed"
E_BAD_URL == "Enter a valid GitHub URL"
E_BAD_HOST == "Only github.com URLs are supported"
E_BAD_SHAPE == "Use a GitHub repo URL like https://github.com/owner/repo or a directory URL"
E_REPO == "GitHub repository request failed"
E_NO_SKILLS == "No installable skills found in this GitHub directory"
E_NO_ENTRY == "NotFoundError"
E_TIMEOUT == "GitHub request timed out after"

\* ------------------------------------------------------ remote repository
\* One public repository o/r on branch main.  A revision maps the full path
\* of every file of the repository to its bytes.
OWNER == "o"
REPO == "r"
DEFAULT_BRANCH == "main"

FooDir == <<"skills", "foo">>
BarDir == <<"skills", "bar">>

\* skills/bar/SKILL.md has no frontmatter name
Rev1 ==
  (FooDir \o <<"SKILL.md">> :> Manifest("foo", 1)) @@
  (FooDir \o <<"a.md">> :> Raw(1)) @@
  (BarDir \o <<"SKILL.md">> :> Raw(5))

\* a.md modified, refs/b.md added; skills/bar has no SKILL.md
Rev2 ==
  (FooDir \o <<"SKILL.md">> :> Manifest("foo", 1)) @@
  (FooDir \o <<"a.md">> :> Raw(2)) @@
  (FooDir \o <<"refs", "b.md">> :> Raw(3)) @@
  (BarDir \o <<"a.md">> :> Raw(1))

\* a.md removed, refs/b.md added; the SKILL.md of directory bar declares
\* the name foo
Rev3 ==
  (FooDir \o <<"SKILL.md">> :> Manifest("foo", 1)) @@
  (FooDir \o <<"refs", "b.md">> :> Raw(3)) @@
  (BarDir \o <<"SKILL.md">> :> Manifest("foo", 2))

\* a skill at the repository root; skills/foo ships a file with the
\* reserved metadata filename
Rev4 ==
  (<<"SKILL.md">> :> Manifest("foo", 3)) @@
  (FooDir \o <<"SKILL.md">> :> Manifest("foo", 1)) @@
  (FooDir \o SOURCE_METADATA_FILENAME :> Raw(4))

\* the SKILL.md at the repository root and the one of skills/foo now declare
\* the name bar; skills holds a directory that is named SKILL.md
Rev5 ==
  (<<"SKILL.md">> :> Manifest("bar", 3)) @@
  (FooDir \o <<"SKILL.md">> :> Manifest("bar", 1)) @@
  (FooDir \o <<"a.md">> :> Raw(1)) @@
  (<<"skills", "SKILL.md", "a.md">> :> Raw(1))

Revisions == <<Rev1, Rev2, Rev3, Rev4>>

\* The collection skills/<unit>/SKILL.md used by batch installs: unit i of
\* UnitNames, for i up to n; unit 2's directory holds a second file.
CollectionRev(n) ==
  [p \in {<<"skills", UnitNames[i], "SKILL.md">> : i \in 1..n}
        \cup {<<"skills", UnitNames[2], "a.md">>}
     |-> IF p[3] = "SKILL.md" THEN Manifest(p[2], 1) ELSE Raw(1)]

\* -------------------------------------------------------- GitHub API reads
FilesBelow(repo, dir) ==
  {p \in DOMAIN repo : IsPrefix(dir, p) /\ Len(p) > Len(dir)}

DirExists(repo, dir) == dir = <<>> \/ FilesBelow(repo, dir) # {}

\* The entries of one directory as the contents API lists them.
fetchGitHubDirectory(repo, dir) ==
  { [name |-> p[Len(dir) + 1],
     path |-> SubSeq(p, 1, Len(dir) + 1),
     type |-> IF Len(p) = Len(dir) + 1 THEN "file" ELSE "dir",
     sha  |-> IF Len(p) = Len(dir) + 1 THEN computeGitBlobSha(repo[p])
              ELSE <<"tree">>] : p \in FilesBelow(repo, dir) }

RECURSIVE collectGitHubFiles(_, _)
\* Every file below dir with its sha and bytes, as a set: the walk pushes
\* them in completion order and the caller sorts.
collectGitHubFiles(repo, dir) ==
  LET entries == fetchGitHubDirectory(repo, dir)
  IN UNION { IF e.type = "dir" THEN collectGitHubFiles(repo, e.path)
             ELSE {[path |-> e.path, sha |-> e.sha, bytes |-> repo[e.path]]}
             : e \in entries }

\* a walk that lists the files of dir itself and does not descend
collectTopLevelFileShas(repo, dir) ==
  {[path |-> e.path, sha |-> e.sha] :
     e \in {c \in fetchGitHubDirectory(repo, dir) : c.type = "file"}}

RECURSIVE collectGitHubFileShas(_, _)
collectGitHubFileShas(repo, dir) ==
  LET entries == fetchGitHubDirectory(repo, dir)
  IN UNION { IF e.type = "dir" THEN collectGitHubFileShas(repo, e.path)
             ELSE {[path |-> e.path, sha |-> e.sha]} : e \in entries }

RECURSIVE SeqOfSet(_)
SeqOfSet(S) ==
  IF S = {} THEN <<>> ELSE LET x == CHOOSE x \in S : TRUE
                           IN <<x>> \o SeqOfSet(S \ {x})

\* ---------------------------------------------------------- remote requests
\* A request the module sends: the repository metadata ("repository"), the
\* listing of a directory ("directory") or the contents of a file ("file").
Req(kind, path) == [kind |-> kind, path |-> path]

RECURSIVE ConcatAll(_)
ConcatAll(ss) == IF ss = <<>> THEN <<>> ELSE Head(ss) \o ConcatAll(Tail(ss))

\* the entries of a listing of the given type, as paths in path order
EntryPaths(repo, dir, type) ==
  SortSeq(SeqOfSet({e.path : e \in {c \in fetchGitHubDirectory(repo, dir) : c.type = type}}),
          PathLess)

RECURSIVE collectGitHubFilesRequests(_, _)
\* the requests of collectGitHubFiles: the listing of dir, the contents of
\* each of its files, and the same for each of its directories
collectGitHubFilesRequests(repo, dir) ==
  LET files == EntryPaths(repo, dir, "file")
      dirs == EntryPaths(repo, dir, "dir")
  IN <<Req("directory", dir)>>
     \o [i \in 1..Len(files) |-> Req("file", files[i])]
     \o ConcatAll([i \in 1..Len(dirs) |-> collectGitHubFilesRequests(repo, dirs[i])])

RECURSIVE collectGitHubFileShasRequests(_, _)
\* the requests of collectGitHubFileShas: the listing of dir and of every
\* directory below it
collectGitHubFileShasRequests(repo, dir) ==
  LET dirs == EntryPaths(repo, dir, "dir")
  IN <<Req("directory", dir)>>
     \o ConcatAll([i \in 1..Len(dirs) |-> collectGitHubFileShasRequests(repo, dirs[i])])

\* ------------------------------------------------------------- validation
ValidSkillNames == AllNames
INVALID_NAME == "Bad_Name"

\* a name with a leading blank, and name.trim()
PADDED_NAME == " foo"
Trim(name) == IF name = PADDED_NAME THEN "foo" ELSE name

\* SKILL_NAME_RE.test(name), for a name of at most 64 characters
MatchesSkillNameRe(name) == name \in ValidSkillNames

validateSkillName(name) ==
  LET trimmed == Trim(name)
  IN IF trimmed = "" THEN "Name is required"
     ELSE IF ~MatchesSkillNameRe(trimmed)
          THEN "Use lowercase letters, numbers, and single hyphens only"
          ELSE Null

\* The name the frontmatter regex extracts, or NoName when it does not match.
parseSkillFrontmatter(bytes) == bytes.name

\* target.path.split('/').filter(Boolean).pop()
remoteDirNameOf(path) == IF path = <<>> THEN Null ELSE path[Len(path)]

\* the value standing for a thrown "Invalid skill file path" error
Throw == <<"#throw">>

toRelativeSkillPath(rootPath, fullPath) ==
  IF rootPath = <<>> THEN fullPath
  ELSE IF fullPath = rootPath THEN Throw
  ELSE IF ~IsPrefix(rootPath, fullPath) THEN Throw
  ELSE SubSeq(fullPath, Len(rootPath) + 1, Len(fullPath))

Ok(v) == [ok |-> TRUE, val |-> v]
Fail(e) == [ok |-> FALSE, err |-> e]

\* fetchGitHubSkillBundle without the comparison of the declared name with
\* the name of the remote directory
fetchBundleWithoutDirNameCheck(repo, target) ==
  IF ~DirExists(repo, target.path) THEN Fail(Err(E_NETWORK, "404"))
  ELSE IF target.path \o <<SKILL_MD>> \notin DOMAIN repo
       THEN Fail(Err(E_NO_MANIFEST, ""))
  ELSE IF parseSkillFrontmatter(repo[target.path \o <<SKILL_MD>>]) = NoName
       THEN Fail(Err(E_NO_FRONTMATTER, ""))
  ELSE Ok([skillName |-> parseSkillFrontmatter(repo[target.path \o <<SKILL_MD>>]),
           files |-> SortByPath(SeqOfSet(collectGitHubFiles(repo, target.path)))])

fetchGitHubSkillBundle(repo, target) ==
  IF ~DirExists(repo, target.path) THEN Fail(Err(E_NETWORK, "404"))
  ELSE LET rootEntries == fetchGitHubDirectory(repo, target.path)
           found == \E e \in rootEntries : e.type = "file" /\ e.name = SKILL_MD
       IN IF ~found THEN Fail(Err(E_NO_MANIFEST, ""))
          ELSE LET skillName == parseSkillFrontmatter(repo[target.path \o <<SKILL_MD>>])
                   remoteDirName == remoteDirNameOf(target.path)
               IN IF skillName = NoName THEN Fail(Err(E_NO_FRONTMATTER, ""))
                  ELSE IF validateSkillName(skillName) # Null
                       THEN Fail(Err("Invalid skill name in SKILL.md:", skillName))
                  ELSE IF remoteDirName # Null /\ remoteDirName # skillName
                       THEN Fail(Err(E_NAME_MISMATCH, ""))
                  ELSE Ok([skillName |-> skillName,
                           files |-> SortByPath(SeqOfSet(
                                       collectGitHubFiles(repo, target.path)))])

fetchGitHubSkillSnapshot(repo, target) ==
  IF ~DirExists(repo, target.path) THEN Fail(Err(E_NETWORK, "404"))
  ELSE LET rootEntries == fetchGitHubDirectory(repo, target.path)
           found == \E e \in rootEntries : e.type = "file" /\ e.name = SKILL_MD
       IN IF ~found THEN Fail(Err(E_NO_MANIFEST, ""))
          ELSE LET skillName == parseSkillFrontmatter(repo[target.path \o <<SKILL_MD>>])
                   remoteDirName == remoteDirNameOf(target.path)
               IN IF skillName = NoName THEN Fail(Err(E_NO_FRONTMATTER, ""))
                  ELSE IF validateSkillName(skillName) # Null
                       THEN Fail(Err("Invalid skill name in SKILL.md:", skillName))
                  ELSE IF remoteDirName # Null /\ remoteDirName # skillName
                       THEN Fail(Err(E_NAME_MISMATCH, ""))
                  ELSE Ok([skillName |-> skillName,
                           files |-> SortByPath(SeqOfSet(
                                       collectGitHubFileShas(repo, target.path)))])

\* the requests fetchGitHubSkillBundle sends: the listing of the target, the
\* contents of its SKILL.md, then the walk when the name checks pass
fetchGitHubSkillBundleRequests(repo, target) ==
  <<Req("directory", target.path)>> \o
  (IF target.path \o <<SKILL_MD>> \notin DOMAIN repo THEN <<>>
   ELSE <<Req("file", target.path \o <<SKILL_MD>>)>> \o
        (IF fetchGitHubSkillBundle(repo, target).ok
         THEN collectGitHubFilesRequests(repo, target.path) ELSE <<>>))

\* a snapshot that downloads the contents of every file it walks over
fetchSnapshotRequestsDownloading(repo, target) ==
  <<Req("directory", target.path)>> \o
  (IF target.path \o <<SKILL_MD>> \notin DOMAIN repo THEN <<>>
   ELSE <<Req("file", target.path \o <<SKILL_MD>>)>> \o
        (IF fetchGitHubSkillSnapshot(repo, target).ok
         THEN collectGitHubFilesRequests(repo, target.path) ELSE <<>>))

\* the requests fetchGitHubSkillSnapshot sends: as those of the bundle, with
\* a walk that asks for listings only
fetchGitHubSkillSnapshotRequests(repo, target) ==
  <<Req("directory", target.path)>> \o
  (IF target.path \o <<SKILL_MD>> \notin DOMAIN repo THEN <<>>
   ELSE <<Req("file", target.path \o <<SKILL_MD>>)>> \o
        (IF fetchGitHubSkillSnapshot(repo, target).ok
         THEN collectGitHubFileShasRequests(repo, target.path) ELSE <<>>))

\* --------------------------------------------------------------- URL parse
\* a lookup that falls back to the branch main when the request fails
fetchDefaultBranchAssumingMain(branch) ==
  Ok(IF branch = Null THEN DEFAULT_BRANCH ELSE branch)

\* fetchGitHubDefaultBranch: branch is what the repository request returns,
\* Null when the response is not OK, times out or names no default branch.
fetchGitHubDefaultBranch(branch) ==
  IF branch = Null THEN Fail(Err(E_REPO, "")) ELSE Ok(branch)

\* a resolver that takes any third path segment for "tree"
parseGitHubSkillUrlAnyThirdSegment(url, branch) ==
  IF ~url.wellFormed THEN Fail(Err(E_BAD_URL, ""))
  ELSE IF url.host # "github.com" /\ url.host # "www.github.com"
       THEN Fail(Err(E_BAD_HOST, ""))
  ELSE IF Len(url.parts) < 2 THEN Fail(Err(E_BAD_SHAPE, ""))
  ELSE IF Len(url.parts) = 2
       THEN IF branch = Null THEN Fail(Err(E_REPO, ""))
            ELSE Ok([owner |-> url.parts[1], repo |-> url.parts[2],
                     ref |-> branch, path |-> <<>>, originalUrl |-> url])
  ELSE IF Len(url.parts) < 4 THEN Fail(Err(E_BAD_SHAPE, ""))
  ELSE Ok([owner |-> url.parts[1], repo |-> url.parts[2],
           ref |-> url.parts[4],
           path |-> SubSeq(url.parts, 5, Len(url.parts)),
           originalUrl |-> url])

\* A URL is [wellFormed, host, parts]: parts are the non-empty segments of
\* its pathname.  branch is the outcome of the default-branch lookup (Null
\* when that request fails); it is consulted for a bare repository URL only.
parseGitHubSkillUrl(url, branch) ==
  IF ~url.wellFormed THEN Fail(Err(E_BAD_URL, ""))
  ELSE IF url.host # "github.com" /\ url.host # "www.github.com"
       THEN Fail(Err(E_BAD_HOST, ""))
  ELSE IF Len(url.parts) < 2 THEN Fail(Err(E_BAD_SHAPE, ""))
  ELSE IF Len(url.parts) = 2
       THEN LET ref == fetchGitHubDefaultBranch(branch)
            IN IF ~ref.ok THEN Fail(ref.err)
               ELSE Ok([owner |-> url.parts[1], repo |-> url.parts[2],
                        ref |-> ref.val, path |-> <<>>, originalUrl |-> url])
  ELSE IF url.parts[3] # "tree" \/ Len(url.parts) < 4
       THEN Fail(Err(E_BAD_SHAPE, ""))
  ELSE Ok([owner |-> url.parts[1], repo |-> url.parts[2],
           ref |-> url.parts[4],
           path |-> SubSeq(url.parts, 5, Len(url.parts)),
           originalUrl |-> url])

\* the requests parseGitHubSkillUrl sends: the default-branch lookup of a
\* bare repository URL
parseGitHubSkillUrlRequests(url) ==
  IF ~url.wellFormed THEN <<>>
  ELSE IF url.host # "github.com" /\ url.host # "www.github.com" THEN <<>>
  ELSE IF Len(url.parts) < 2 THEN <<>>
  ELSE IF Len(url.parts) = 2 THEN <<Req("repository", <<>>)>>
  ELSE <<>>

\* how the default-branch lookup of a resolution went: none was made, it
\* failed, or it returned the branch
LookupOutcome(url, branch) ==
  IF parseGitHubSkillUrlRequests(url) = <<>> THEN "none"
  ELSE IF branch = Null THEN "failed" ELSE "ok"

Url(parts) == [wellFormed |-> TRUE, host |-> "github.com", parts |-> parts]
TreeUrl(path) == Url(<<OWNER, REPO, "tree", DEFAULT_BRANCH>> \o path)

\* buildGitHubTreeUrl
buildGitHubTreeUrl(owner, repo, ref, path) ==
  IF path = <<>> THEN Url(<<owner, repo>>)
  ELSE Url(<<owner, repo, "tree", ref>> \o path)

\* ----------------------------------------------------------- local store
\* store[name] says whether the directory skills/<name>/ exists and gives
\* its files as a function from relative path to content.
EmptyDir == [p \in {} |-> Null]
Dir(files) == [exists |-> TRUE, files |-> files]
NoDir == [exists |-> FALSE, files |-> EmptyDir]

\* a listing of the skills namespace that finds nothing
listNoUserSkillNames(st) == {}

listUserSkillNames(st) == {n \in DOMAIN st : st[n].exists}

\* a write that replaces the directory by the one file
WriteFileTruncating(dir, path, content) == [p \in {path} |-> content]

WriteFile(dir, path, content) ==
  [p \in DOMAIN dir \cup {path} |-> IF p = path THEN content ELSE dir[p]]

\* a lookup of the unit directory that creates it when it is absent,
\* whatever the caller asked for
getUserSkillDirCreating(st, skillName, create) ==
  IF validateSkillName(skillName) # Null THEN st
  ELSE IF ~st[skillName].exists THEN [st EXCEPT ![skillName] = Dir(EmptyDir)]
  ELSE st

\* getUserSkillDir(skillName, create): the namespace after the lookup of the
\* unit directory; the lookup creates the directory only when create is set
getUserSkillDir(st, skillName, create) ==
  IF validateSkillName(skillName) # Null THEN st
  ELSE IF create /\ ~st[skillName].exists THEN [st EXCEPT ![skillName] = Dir(EmptyDir)]
  ELSE st

\* the null result of readGitHubSkillSourceMetadata
NoMeta == [version |-> 0]

\* What a parsed sidecar holds in the place of a string, or of the files
\* array, when the field is missing or has another JSON type.
NonString == "#non-string"
NonStringPath == <<"#non-string">>
NonStringUrl == [wellFormed |-> FALSE, host |-> "#non-string", parts |-> <<>>]
NonArray == << [path |-> <<"#non-array">>, sha |-> <<"sha1", "blob", "#non-array", 0>>] >>

\* a reader that takes any JSON sidecar of version 1 and type github
readSourceMetadataWithoutFieldChecks(st, skillName) ==
  IF validateSkillName(skillName) # Null THEN NoMeta
  ELSE IF ~st[skillName].exists THEN NoMeta
  ELSE IF SOURCE_METADATA_FILENAME \notin DOMAIN st[skillName].files THEN NoMeta
  ELSE LET c == st[skillName].files[SOURCE_METADATA_FILENAME]
       IN IF c.kind # "json" THEN NoMeta
          ELSE IF c.meta.version # 1 \/ c.meta.type # "github" THEN NoMeta
          ELSE [c.meta EXCEPT !.files = SortByPath(@)]

\* readGitHubSkillSourceMetadata: null unless the sidecar exists, parses as
\* JSON, has version 1 and type github, strings in its string fields and an
\* array of files; files sorted by path.
readGitHubSkillSourceMetadata(st, skillName) ==
  IF validateSkillName(skillName) # Null THEN NoMeta
  ELSE IF ~st[skillName].exists THEN NoMeta
  ELSE IF SOURCE_METADATA_FILENAME \notin DOMAIN st[skillName].files THEN NoMeta
  ELSE LET c == st[skillName].files[SOURCE_METADATA_FILENAME]
       IN IF c.kind # "json" THEN NoMeta
          ELSE IF c.meta.version # 1 \/ c.meta.type # "github" THEN NoMeta
          ELSE IF \/ c.meta.owner = NonString
                  \/ c.meta.repo = NonString
                  \/ c.meta.ref = NonString
                  \/ c.meta.path = NonStringPath
                  \/ c.meta.originalUrl = NonStringUrl
                  \/ c.meta.files = NonArray
               THEN NoMeta
          ELSE [c.meta EXCEPT !.files = SortByPath(@)]

\* The metadata record install and force update persist (installedAt, a
\* wall-clock string, is left out).
SourceMetadata(target, files) ==
  [version |-> 1, type |-> "github",
   owner |-> target.owner, repo |-> target.repo, ref |-> target.ref,
   path |-> target.path, originalUrl |-> target.originalUrl,
   files |-> [i \in 1..Len(files) |->
                [path |-> toRelativeSkillPath(target.path, files[i].path),
                 sha |-> files[i].sha]]]

PathsOf(files) == [i \in 1..Len(files) |-> files[i].path]

\* ---------------------------------------------------------------- diffing
Undefined == <<"undefined">>

\* new Map(files.map(f => [f.path, f.sha])).get(path)
MapGet(files, path) ==
  LET idx == {i \in 1..Len(files) : files[i].path = path}
  IN IF idx = {} THEN Undefined
     ELSE files[CHOOSE i \in idx : \A j \in idx : j <= i].sha

\* the test of diffGitHubSkillMetadata inverted
FalsyInverted(x) == ~(x = Undefined \/ x = <<>>)

Falsy(x) == x = Undefined \/ x = <<>>

diffGitHubSkillMetadata(skillName, metadata, target, remoteBundleFiles) ==
  LET remoteFiles ==
        SortByPath([i \in 1..Len(remoteBundleFiles) |->
                      [path |-> toRelativeSkillPath(target.path, remoteBundleFiles[i].path),
                       sha |-> remoteBundleFiles[i].sha]])
      added == SelectSeq(remoteFiles,
                 LAMBDA f : Falsy(MapGet(metadata.files, f.path)))
      modified == SelectSeq(remoteFiles,
                 LAMBDA f : /\ ~Falsy(MapGet(metadata.files, f.path))
                            /\ MapGet(metadata.files, f.path) # f.sha)
      removed == SelectSeq(metadata.files,
                 LAMBDA f : MapGet(remoteFiles, f.path) = Undefined)
  IN [skillName |-> skillName,
      updateAvailable |-> Len(added) > 0 \/ Len(modified) > 0 \/ Len(removed) > 0,
      added |-> PathsOf(added),
      modified |-> PathsOf(modified),
      removed |-> PathsOf(removed),
      remoteFileCount |-> Len(remoteFiles)]

\* ------------------------------------------------------------------ state
VARIABLES
  remote,    \* current contents of the repository: full path -> bytes
  store,     \* local skills namespace: name -> NoDir or (path -> content)
  origin,    \* history: who brought store[name] into existence
  mode,      \* the operation in flight: idle, single, batch or force
  tasks,     \* the install / force-update tasks of the operation in flight
  ret,       \* what the operation that finished in the last step returned or threw
  fresh,     \* history: name's sidecar reflects the current remote contents
  checkLog,  \* history: update-check results of name while fresh
  dIn,       \* input of the stand-alone diff
  dOut,      \* output of the stand-alone diff
  page       \* the Skills page: its flags, its dialogs, its handlers in flight

vars == <<remote, store, origin, mode, tasks, ret, fresh, checkLog, dIn, dOut, page>>

NoTarget == [owner |-> OWNER, repo |-> REPO, ref |-> DEFAULT_BRANCH,
             path |-> <<>>, originalUrl |-> Url(<<>>)]
NoErr == Err("", "")
NoRet == [op |-> "none"]

\* the remote call a task is suspended in: none (phase none), a fetch with
\* its timer armed (pending), a response whose body is being read (headers),
\* or all of them answered; k counts the calls made
NoCall == [phase |-> "none", k |-> 0]

\* A task runs installGitHubSkillTarget (kind install) or the body of
\* forceUpdateGitHubSkill (kind force); pc is the await it is suspended at.
NewTask(kind, pc, url, target, skill) ==
  [kind |-> kind, pc |-> pc, url |-> url, target |-> target, skill |-> skill,
   skillName |-> NoName, files |-> <<>>, idx |-> 1, err |-> NoErr,
   fresh |-> FALSE, meta |-> NoMeta, diff |-> NoRet, reqs |-> <<>>,
   lookup |-> "none", call |-> NoCall]

Terminal(t) == t.pc \in {"ok", "err"}

SetTask(i, t) == tasks' = [tasks EXCEPT ![i] = t]
Throws(i, e) == SetTask(i, [tasks[i] EXCEPT !.pc = "err", !.err = e])

\* ---------------------------------------------------------- single install
\* installSkillFromGitHubUrl is called.
StartInstall(url) ==
  /\ mode = "idle"
  /\ mode' = "single"
  /\ tasks' = <<NewTask("install", "parse", url, NoTarget, Null)>>
  /\ ret' = NoRet
  /\ UNCHANGED <<remote, store, origin, fresh, checkLog, dIn, dOut, page>>

\* a resolution that asks for the repository metadata whatever the URL
ParseUrlAlwaysLookingUp(i) ==
  /\ tasks[i].pc = "parse"
  /\ \E branch \in {DEFAULT_BRANCH, Null} :
       LET r == parseGitHubSkillUrl(tasks[i].url, branch)
           reqs == tasks[i].reqs \o <<Req("repository", <<>>)>>
       IN IF r.ok
          THEN SetTask(i, [tasks[i] EXCEPT
                             !.pc = "fetch", !.target = r.val, !.reqs = reqs,
                             !.lookup = LookupOutcome(tasks[i].url, branch)])
          ELSE SetTask(i, [tasks[i] EXCEPT
                             !.pc = "err", !.err = r.err, !.reqs = reqs,
                             !.lookup = LookupOutcome(tasks[i].url, branch)])
  /\ ret' = NoRet
  /\ UNCHANGED <<remote, store, origin, mode, fresh, checkLog, dIn, dOut, page>>

\* parseGitHubSkillUrl, with the default-branch lookup of a bare URL.
ParseUrl(i) ==
  /\ tasks[i].pc = "parse"
  /\ \E branch \in {DEFAULT_BRANCH, Null} :
       LET r == parseGitHubSkillUrl(tasks[i].url, branch)
           reqs == tasks[i].reqs \o parseGitHubSkillUrlRequests(tasks[i].url)
       IN IF r.ok
          THEN SetTask(i, [tasks[i] EXCEPT
                             !.pc = "fetch", !.target = r.val, !.reqs = reqs,
                             !.lookup = LookupOutcome(tasks[i].url, branch)])
          ELSE SetTask(i, [tasks[i] EXCEPT
                             !.pc = "err", !.err = r.err, !.reqs = reqs,
                             !.lookup = LookupOutcome(tasks[i].url, branch)])
  /\ ret' = NoRet
  /\ UNCHANGED <<remote, store, origin, mode, fresh, checkLog, dIn, dOut, page>>

\* an install that creates the directory of the unit before it fetches
FetchBundleIntoDirectory(i) ==
  /\ tasks[i].kind = "install"
  /\ tasks[i].pc = "fetch"
  /\ LET r == fetchGitHubSkillBundle(remote, tasks[i].target)
         n == remoteDirNameOf(tasks[i].target.path)
     IN /\ IF r.ok
           THEN SetTask(i, [tasks[i] EXCEPT !.pc = "list",
                                            !.skillName = r.val.skillName,
                                            !.files = r.val.files,
                                            !.fresh = TRUE])
           ELSE SetTask(i, [tasks[i] EXCEPT !.pc = "err", !.err = r.err])
        /\ store' = IF n \in AllNames /\ ~store[n].exists
                    THEN [store EXCEPT ![n] = Dir(EmptyDir)] ELSE store
  /\ ret' = NoRet
  /\ UNCHANGED <<remote, origin, mode, fresh, checkLog, dIn, dOut, page>>

\* installGitHubSkillTarget: fetchGitHubSkillBundle returns or throws; it
\* throws when one of its requests fails, after the requests before it were
\* answered (in a batch the log of such a fetch is cut after its first
\* request).
FetchBundle(i) ==
  /\ tasks[i].kind = "install"
  /\ tasks[i].pc = "fetch"
  /\ \/ LET sent == fetchGitHubSkillBundleRequests(remote, tasks[i].target)
        IN \E k \in (IF mode = "single" THEN 1..Len(sent) ELSE {1}) :
             SetTask(i, [tasks[i] EXCEPT
                           !.pc = "err", !.err = Err(E_NETWORK, "network"),
                           !.reqs = @ \o SubSeq(sent, 1, k)])
     \/ LET r == fetchGitHubSkillBundle(remote, tasks[i].target)
            reqs == tasks[i].reqs \o fetchGitHubSkillBundleRequests(remote, tasks[i].target)
        IN IF r.ok
           THEN SetTask(i, [tasks[i] EXCEPT !.pc = "list",
                                            !.skillName = r.val.skillName,
                                            !.files = r.val.files,
                                            !.fresh = TRUE,
                                            !.reqs = reqs])
           ELSE SetTask(i, [tasks[i] EXCEPT !.pc = "err", !.err = r.err,
                                            !.reqs = reqs])
  /\ ret' = NoRet
  /\ UNCHANGED <<remote, store, origin, mode, fresh, checkLog, dIn, dOut, page>>

\* an install that does not look for an existing unit of the name
CheckExistingSkipped(i) ==
  /\ tasks[i].kind = "install"
  /\ tasks[i].pc = "list"
  /\ SetTask(i, [tasks[i] EXCEPT !.pc = "mkdir"])
  /\ ret' = NoRet
  /\ UNCHANGED <<remote, store, origin, mode, fresh, checkLog, dIn, dOut, page>>

\* installGitHubSkillTarget: the name-collision check.
CheckExisting(i) ==
  /\ tasks[i].kind = "install"
  /\ tasks[i].pc = "list"
  /\ IF tasks[i].skillName \in listUserSkillNames(store)
     THEN Throws(i, Err(E_EXISTS, tasks[i].skillName))
     ELSE SetTask(i, [tasks[i] EXCEPT !.pc = "mkdir"])
  /\ ret' = NoRet
  /\ UNCHANGED <<remote, store, origin, mode, fresh, checkLog, dIn, dOut, page>>

\* an install or force update that writes the sidecar as soon as the
\* directory exists, before the content files
MakeDirSidecarFirst(i) ==
  /\ tasks[i].pc = "mkdir"
  /\ LET n == tasks[i].skillName
     IN /\ store' = [store EXCEPT ![n] =
               Dir(WriteFile(@.files, SOURCE_METADATA_FILENAME,
                             JsonContent(SourceMetadata(tasks[i].target, tasks[i].files))))]
        /\ origin' = [origin EXCEPT ![n] = IF store[n].exists THEN @ ELSE "github"]
        /\ SetTask(i, [tasks[i] EXCEPT
                         !.pc = IF Len(tasks[i].files) = 0 THEN "meta" ELSE "write",
                         !.idx = 1])
  /\ ret' = NoRet
  /\ UNCHANGED <<remote, mode, fresh, checkLog, dIn, dOut, page>>

\* getUserSkillDir(skillName, true) of install and force update.
MakeDir(i) ==
  /\ tasks[i].pc = "mkdir"
  /\ LET n == tasks[i].skillName
     IN /\ store' = [store EXCEPT ![n] = IF @.exists THEN @ ELSE Dir(EmptyDir)]
        /\ origin' = [origin EXCEPT ![n] = IF store[n].exists THEN @ ELSE "github"]
        /\ SetTask(i, [tasks[i] EXCEPT
                         !.pc = IF Len(tasks[i].files) = 0 THEN "meta" ELSE "write",
                         !.idx = 1])
  /\ ret' = NoRet
  /\ UNCHANGED <<remote, mode, fresh, checkLog, dIn, dOut, page>>

\* writeGitHubSkillBundle: one iteration of the loop (writeSkillFileBytes).
WriteBundleFile(i) ==
  /\ tasks[i].pc = "write"
  /\ LET t == tasks[i]
         n == t.skillName
         file == t.files[t.idx]
         relativePath == toRelativeSkillPath(t.target.path, file.path)
     IN \/ /\ relativePath = Throw
           /\ Throws(i, Err("Invalid skill file path", ""))
           /\ UNCHANGED store
        \/ /\ relativePath # Throw
           /\ Throws(i, Err(IF store[n].exists THEN E_WRITE ELSE E_NO_ENTRY, ""))
           /\ UNCHANGED store
        \/ /\ relativePath # Throw
           /\ store[n].exists
           /\ store' = [store EXCEPT ![n].files =
                          WriteFile(@, relativePath, BytesContent(file.bytes))]
           /\ SetTask(i, [t EXCEPT !.idx = @ + 1,
                                   !.pc = IF t.idx = Len(t.files) THEN "meta" ELSE "write"])
  /\ ret' = NoRet
  /\ UNCHANGED <<remote, origin, mode, fresh, checkLog, dIn, dOut, page>>

\* writeSkillFileText(skillDir, SOURCE_METADATA_FILENAME, ...) of install
\* and force update; the task then returns.
WriteSidecar(i) ==
  /\ tasks[i].pc = "meta"
  /\ LET t == tasks[i]
         n == t.skillName
     IN \/ /\ Throws(i, Err(IF store[n].exists THEN E_WRITE ELSE E_NO_ENTRY, ""))
           /\ UNCHANGED <<store, fresh, checkLog>>
        \/ /\ store[n].exists
           /\ store' = [store EXCEPT ![n].files =
                 WriteFile(@, SOURCE_METADATA_FILENAME,
                           JsonContent(SourceMetadata(t.target, t.files)))]
           /\ fresh' = [fresh EXCEPT ![n] = t.fresh]
           /\ checkLog' = [checkLog EXCEPT ![n] = <<>>]
           /\ SetTask(i, [t EXCEPT !.pc = "ok"])
  /\ ret' = NoRet
  /\ UNCHANGED <<remote, origin, mode, dIn, dOut, page>>

\* an installer that counts the sidecar among the installed files
FinishInstallCountingSidecar ==
  /\ mode = "single"
  /\ Terminal(tasks[1])
  /\ ret' = IF tasks[1].pc = "ok"
            THEN [op |-> "install", ok |-> TRUE, skillName |-> tasks[1].skillName,
                  fileCount |-> Len(tasks[1].files) + 1, target |-> tasks[1].target,
                  url |-> tasks[1].url, requests |-> tasks[1].reqs,
                  lookup |-> tasks[1].lookup]
            ELSE [op |-> "install", ok |-> FALSE, err |-> tasks[1].err,
                  target |-> tasks[1].target,
                  url |-> tasks[1].url, requests |-> tasks[1].reqs,
                  lookup |-> tasks[1].lookup]
  /\ mode' = "idle"
  /\ tasks' = <<>>
  /\ UNCHANGED <<remote, store, origin, fresh, checkLog, dIn, dOut, page>>

\* installSkillFromGitHubUrl returns {skillName, fileCount} or throws.
FinishInstall ==
  /\ mode = "single"
  /\ Terminal(tasks[1])
  /\ ret' = IF tasks[1].pc = "ok"
            THEN [op |-> "install", ok |-> TRUE, skillName |-> tasks[1].skillName,
                  fileCount |-> Len(tasks[1].files), target |-> tasks[1].target,
                  url |-> tasks[1].url, requests |-> tasks[1].reqs,
                  lookup |-> tasks[1].lookup]
            ELSE [op |-> "install", ok |-> FALSE, err |-> tasks[1].err,
                  target |-> tasks[1].target,
                  url |-> tasks[1].url, requests |-> tasks[1].reqs,
                  lookup |-> tasks[1].lookup]
  /\ mode' = "idle"
  /\ tasks' = <<>>
  /\ UNCHANGED <<remote, store, origin, fresh, checkLog, dIn, dOut, page>>

\* ------------------------------------------------------------ batch install
\* installSelectedGitHubSkills(skills): one install task per discovered
\* skill, all started together.
StartBatch(skills) ==
  /\ mode = "idle"
  /\ mode' = "batch"
  /\ tasks' = [i \in 1..Len(skills) |->
                 NewTask("install", "fetch", skills[i].originalUrl,
                         [owner |-> skills[i].owner, repo |-> skills[i].repo,
                          ref |-> skills[i].ref, path |-> skills[i].path,
                          originalUrl |-> skills[i].originalUrl],
                         skills[i].skillName)]
  /\ ret' = NoRet
  /\ UNCHANGED <<remote, store, origin, fresh, checkLog, dIn, dOut, page>>

\* a batch in which no message counts as a name collision
isNeverCollision(message) == FALSE

\* message.startsWith('Skill already exists:') of installSelectedGitHubSkills
isCollision(message) == message.prefix = E_EXISTS

\* a batch that reports a name collision as a failure
BatchResultCollisionFailed(t) ==
  IF t.pc = "ok"
  THEN [skillName |-> t.skillName, status |-> "installed",
        fileCount |-> Len(t.files), message |-> NoErr]
  ELSE [skillName |-> t.skill, status |-> "failed",
        fileCount |-> 0, message |-> t.err]

\* The per-skill try/catch of installSelectedGitHubSkills.
BatchResult(t) ==
  IF t.pc = "ok"
  THEN [skillName |-> t.skillName, status |-> "installed",
        fileCount |-> Len(t.files), message |-> NoErr]
  ELSE IF isCollision(t.err)
       THEN [skillName |-> t.skill, status |-> "skipped",
             fileCount |-> 0, message |-> t.err]
       ELSE [skillName |-> t.skill, status |-> "failed",
             fileCount |-> 0, message |-> t.err]

\* Promise.all joins: installSelectedGitHubSkills returns {results}.
FinishBatch ==
  /\ mode = "batch"
  /\ \A i \in 1..Len(tasks) : Terminal(tasks[i])
  /\ ret' = [op |-> "batch", ok |-> TRUE,
             results |-> [i \in 1..Len(tasks) |-> BatchResult(tasks[i])],
             tasks |-> tasks]
  /\ mode' = "idle"
  /\ tasks' = <<>>
  /\ UNCHANGED <<remote, store, origin, fresh, checkLog, dIn, dOut, page>>

\* ------------------------------------------------------- manual operations
SCAFFOLD_DIRS == {"scripts", "references", "assets"}

\* NEW_SKILL_TEMPLATE with {{name}} replaced
NEW_SKILL_TEMPLATE(skillName) == Manifest(skillName, 0)

createUserSkillScaffold(skillName) ==
  /\ mode = "idle"
  /\ IF validateSkillName(skillName) # Null
     THEN /\ ret' = [op |-> "create", ok |-> FALSE, name |-> skillName,
                     err |-> Err(validateSkillName(skillName), "")]
          /\ UNCHANGED <<store, origin>>
     ELSE /\ store' = [store EXCEPT ![skillName] =
                 Dir([p \in DOMAIN @.files \cup {<<d, ".gitkeep">> : d \in SCAFFOLD_DIRS}
                                          \cup {<<SKILL_MD>>} |->
                        IF p = <<SKILL_MD>> THEN BytesContent(NEW_SKILL_TEMPLATE(skillName))
                        ELSE IF p \in {<<d, ".gitkeep">> : d \in SCAFFOLD_DIRS}
                             THEN BytesContent(Raw(0))
                             ELSE @.files[p]])]
          /\ origin' = [origin EXCEPT ![skillName] =
                          IF store[skillName].exists THEN @ ELSE "manual"]
          /\ ret' = [op |-> "create", ok |-> TRUE, name |-> skillName]
  /\ UNCHANGED <<remote, mode, tasks, fresh, checkLog, dIn, dOut, page>>

writeUserSkillMarkdown(skillName, content) ==
  /\ mode = "idle"
  /\ IF validateSkillName(skillName) # Null
     THEN /\ ret' = [op |-> "write", ok |-> FALSE, name |-> skillName,
                     err |-> Err(validateSkillName(skillName), "")]
          /\ UNCHANGED <<store, origin>>
     ELSE /\ store' = [store EXCEPT ![skillName] =
                         Dir(WriteFile(@.files, <<SKILL_MD>>, BytesContent(content)))]
          /\ origin' = [origin EXCEPT ![skillName] =
                          IF store[skillName].exists THEN @ ELSE "manual"]
          /\ ret' = [op |-> "write", ok |-> TRUE, name |-> skillName]
  /\ UNCHANGED <<remote, mode, tasks, fresh, checkLog, dIn, dOut, page>>

\* skillsDir.removeEntry(skillName, {recursive: true})
RemoveEntry(st, skillName) == [st EXCEPT ![skillName] = NoDir]

deleteUserSkill(skillName) ==
  /\ mode = "idle"
  /\ IF ~store[skillName].exists
     THEN /\ ret' = [op |-> "delete", ok |-> FALSE, name |-> skillName,
                     err |-> Err(E_NO_ENTRY, "")]
          /\ UNCHANGED <<store, origin, fresh, checkLog>>
     ELSE /\ store' = RemoveEntry(store, skillName)
          /\ origin' = [origin EXCEPT ![skillName] = "none"]
          /\ fresh' = [fresh EXCEPT ![skillName] = FALSE]
          /\ checkLog' = [checkLog EXCEPT ![skillName] = <<>>]
          /\ ret' = [op |-> "delete", ok |-> TRUE, name |-> skillName,
                     hadSidecar |-> readGitHubSkillSourceMetadata(store, skillName) # NoMeta]
  /\ UNCHANGED <<remote, mode, tasks, dIn, dOut, page>>

\* ------------------------------------------------------------ update check
TargetOf(metadata) ==
  [owner |-> metadata.owner, repo |-> metadata.repo, ref |-> metadata.ref,
   path |-> metadata.path, originalUrl |-> metadata.originalUrl]

KeepLast(log, x) ==
  IF Len(log) < MaxChecks THEN Append(log, x) ELSE Append(Tail(log), x)

checkGitHubSkillUpdate(skillName) ==
  /\ mode = "idle"
  /\ LET metadata == readGitHubSkillSourceMetadata(store, skillName)
         failed(e, reqs) ==
           /\ ret' = [op |-> "check", ok |-> FALSE, name |-> skillName, err |-> e,
                      requests |-> reqs]
           /\ UNCHANGED checkLog
     IN IF metadata = NoMeta THEN failed(Err(E_NOT_TRACKED, skillName), <<>>)
        ELSE \/ failed(Err(E_NETWORK, "network"),
                       <<Req("directory", TargetOf(metadata).path)>>)
             \/ LET target == TargetOf(metadata)
                    snapshot == fetchGitHubSkillSnapshot(remote, target)
                    reqs == fetchGitHubSkillSnapshotRequests(remote, target)
                IN IF ~snapshot.ok THEN failed(snapshot.err, reqs)
                   ELSE IF snapshot.val.skillName # skillName
                        THEN failed(Err(E_NAME_CHANGED, snapshot.val.skillName), reqs)
                   ELSE LET result == diffGitHubSkillMetadata(skillName, metadata,
                                                               target, snapshot.val.files)
                        IN /\ ret' = [op |-> "check", ok |-> TRUE, name |-> skillName,
                                      val |-> result, requests |-> reqs]
                           /\ checkLog' = [checkLog EXCEPT ![skillName] =
                                             IF fresh[skillName] THEN KeepLast(@, result)
                                             ELSE @]
  /\ store' = getUserSkillDir(store, skillName, FALSE)
  /\ UNCHANGED <<remote, origin, mode, tasks, fresh, dIn, dOut, page>>

\* ------------------------------------------------------------ local drift
\* listSkillFiles: the relative paths of the files below the skill directory
listSkillFiles(dir) == DOMAIN dir

\* the bytes readUserSkillFileBytes returns for a local file
readUserSkillFileBytes(st, skillName, relativePath) ==
  LET c == st[skillName].files[relativePath]
  IN IF c.kind = "bytes" THEN c.b ELSE Raw(0)

detectLocalGitHubSkillChanges(st, skillName, metadata) ==
  LET localRelevant ==
        SortSeq(SeqOfSet(listSkillFiles(st[skillName].files) \ {SOURCE_METADATA_FILENAME}),
                PathLess)
      localSet == Range(localRelevant)
      missing == SelectSeq(metadata.files, LAMBDA f : f.path \notin localSet)
      modified == SelectSeq(metadata.files,
                    LAMBDA f : /\ f.path \in localSet
                               /\ computeGitBlobSha(
                                    readUserSkillFileBytes(st, skillName, f.path)) # f.sha)
      untracked == SelectSeq(localRelevant,
                     LAMBDA path : MapGet(metadata.files, path) = Undefined)
  IN [modified |-> PathsOf(modified), missing |-> PathsOf(missing),
      untracked |-> untracked]

previewGitHubSkillForceUpdate(skillName) ==
  /\ mode = "idle"
  /\ LET metadata == readGitHubSkillSourceMetadata(store, skillName)
     IN IF metadata = NoMeta
        THEN ret' = [op |-> "preview", ok |-> FALSE, name |-> skillName,
                     err |-> Err(E_NOT_TRACKED, skillName), requests |-> <<>>]
        ELSE LET localChanges == detectLocalGitHubSkillChanges(store, skillName, metadata)
             IN ret' = [op |-> "preview", ok |-> TRUE, name |-> skillName,
                        localChanges |-> localChanges,
                        hasLocalChanges |-> \/ Len(localChanges.modified) > 0
                                            \/ Len(localChanges.missing) > 0
                                            \/ Len(localChanges.untracked) > 0,
                        requests |-> <<>>]
  /\ store' = getUserSkillDir(store, skillName, FALSE)
  /\ UNCHANGED <<remote, origin, mode, tasks, fresh, checkLog, dIn, dOut, page>>

\* ------------------------------------------------------------ force update
\* forceUpdateGitHubSkill is called: the metadata read.
StartForceUpdate(skillName) ==
  /\ mode = "idle"
  /\ LET metadata == readGitHubSkillSourceMetadata(store, skillName)
     IN IF metadata = NoMeta
        THEN /\ ret' = [op |-> "force", ok |-> FALSE, name |-> skillName,
                        err |-> Err(E_NOT_TRACKED, skillName), requests |-> <<>>]
             /\ UNCHANGED <<mode, tasks>>
        ELSE /\ ret' = NoRet
             /\ mode' = "force"
             /\ tasks' = <<[NewTask("force", "fetch", metadata.originalUrl,
                                    TargetOf(metadata), skillName)
                              EXCEPT !.meta = metadata]>>
  /\ UNCHANGED <<remote, store, origin, fresh, checkLog, dIn, dOut, page>>

\* forceUpdateGitHubSkill: the bundle fetch, the name check and the diff.
ForceFetch(i) ==
  /\ tasks[i].kind = "force"
  /\ tasks[i].pc = "fetch"
  /\ \/ SetTask(i, [tasks[i] EXCEPT
                        !.pc = "err", !.err = Err(E_NETWORK, "network"),
                        !.reqs = @ \o <<Req("directory", tasks[i].target.path)>>])
     \/ LET t == tasks[i]
            bundle == fetchGitHubSkillBundle(remote, t.target)
            reqs == t.reqs \o fetchGitHubSkillBundleRequests(remote, t.target)
        IN IF ~bundle.ok
           THEN SetTask(i, [t EXCEPT !.pc = "err", !.err = bundle.err, !.reqs = reqs])
           ELSE IF bundle.val.skillName # t.skill
                THEN SetTask(i, [t EXCEPT
                       !.pc = "err",
                       !.err = Err(E_NAME_CHANGED, bundle.val.skillName),
                       !.reqs = reqs])
           ELSE SetTask(i, [t EXCEPT
                  !.pc = "delete",
                  !.reqs = reqs,
                  !.skillName = bundle.val.skillName,
                  !.files = bundle.val.files,
                  !.fresh = TRUE,
                  !.diff = diffGitHubSkillMetadata(t.skill, t.meta, t.target,
                                                   bundle.val.files)])
  /\ ret' = NoRet
  /\ UNCHANGED <<remote, store, origin, mode, fresh, checkLog, dIn, dOut, page>>

\* a force update that leaves the old directory in place
ForceDeleteSkipped(i) ==
  /\ tasks[i].kind = "force"
  /\ tasks[i].pc = "delete"
  /\ SetTask(i, [tasks[i] EXCEPT !.pc = "mkdir"])
  /\ ret' = NoRet
  /\ UNCHANGED <<remote, store, origin, mode, fresh, checkLog, dIn, dOut, page>>

\* forceUpdateGitHubSkill: await deleteUserSkill(skillName).
ForceDelete(i) ==
  /\ tasks[i].kind = "force"
  /\ tasks[i].pc = "delete"
  /\ LET n == tasks[i].skillName
     IN IF ~store[n].exists
        THEN /\ Throws(i, Err(E_NO_ENTRY, ""))
             /\ UNCHANGED <<store, origin, fresh, checkLog>>
        ELSE /\ store' = RemoveEntry(store, n)
             /\ origin' = [origin EXCEPT ![n] = "none"]
             /\ fresh' = [fresh EXCEPT ![n] = FALSE]
             /\ checkLog' = [checkLog EXCEPT ![n] = <<>>]
             /\ SetTask(i, [tasks[i] EXCEPT !.pc = "mkdir"])
  /\ ret' = NoRet
  /\ UNCHANGED <<remote, mode, dIn, dOut, page>>

\* forceUpdateGitHubSkill returns {...diff, fileCount, remoteFileCount}.
FinishForceUpdate ==
  /\ mode = "force"
  /\ Terminal(tasks[1])
  /\ ret' = IF tasks[1].pc = "ok"
            THEN [op |-> "force", ok |-> TRUE, name |-> tasks[1].skill,
                  val |-> tasks[1].diff, fileCount |-> Len(tasks[1].files),
                  target |-> tasks[1].target, requests |-> tasks[1].reqs]
            ELSE [op |-> "force", ok |-> FALSE, name |-> tasks[1].skill,
                  err |-> tasks[1].err, requests |-> tasks[1].reqs]
  /\ mode' = "idle"
  /\ tasks' = <<>>
  /\ UNCHANGED <<remote, store, origin, fresh, checkLog, dIn, dOut, page>>

\* ------------------------------------------------------------ environment
\* The repository owner pushes: the branch now has other contents.
RemoteChange ==
  /\ \E r \in Range(Revisions) : r # remote /\ remote' = r
  /\ fresh' = [n \in DOMAIN fresh |-> FALSE]
  /\ checkLog' = [n \in DOMAIN checkLog |-> <<>>]
  /\ tasks' = [i \in DOMAIN tasks |-> [tasks[i] EXCEPT !.fresh = FALSE]]
  /\ ret' = NoRet
  /\ UNCHANGED <<store, origin, mode, dIn, dOut, page>>

\* ---------------------------------------------------- collection discovery
\* a child discovery that does not compare the declared name with the name
\* of the directory
discoverWithoutDirNameCheck(repo, baseTarget, directoryPath, existingSkills) ==
  IF directoryPath \o <<SKILL_MD>> \notin DOMAIN repo THEN [tag |-> "null"]
  ELSE IF parseSkillFrontmatter(repo[directoryPath \o <<SKILL_MD>>]) = NoName
       THEN [tag |-> "error", err |-> Err(E_NO_FRONTMATTER, "")]
  ELSE [tag |-> "skill",
        skill |-> [skillName |-> parseSkillFrontmatter(repo[directoryPath \o <<SKILL_MD>>]),
                   owner |-> baseTarget.owner, repo |-> baseTarget.repo,
                   ref |-> baseTarget.ref, path |-> directoryPath,
                   originalUrl |-> buildGitHubTreeUrl(baseTarget.owner,
                       baseTarget.repo, baseTarget.ref, directoryPath),
                   alreadyInstalled |->
                     parseSkillFrontmatter(repo[directoryPath \o <<SKILL_MD>>])
                       \in existingSkills]]

\* discoverGitHubSkillDirectory for one child directory: no skill (null), a
\* discovered skill, or a thrown error.  The description is left out.
discoverGitHubSkillDirectory(repo, baseTarget, directoryPath, existingSkills) ==
  LET entries == fetchGitHubDirectory(repo, directoryPath)
      found == \E e \in entries : e.type = "file" /\ e.name = SKILL_MD
  IN IF ~found THEN [tag |-> "null"]
     ELSE LET name == parseSkillFrontmatter(repo[directoryPath \o <<SKILL_MD>>])
              remoteDirName == remoteDirNameOf(directoryPath)
          IN IF name = NoName
             THEN [tag |-> "error", err |-> Err(E_NO_FRONTMATTER, "")]
             ELSE IF validateSkillName(name) # Null
                  THEN [tag |-> "error", err |-> Err("Invalid skill name in SKILL.md:", name)]
             ELSE IF remoteDirName # Null /\ remoteDirName # name
                  THEN [tag |-> "error", err |-> Err(E_NAME_MISMATCH, "")]
             ELSE [tag |-> "skill",
                   skill |-> [skillName |-> name,
                              owner |-> baseTarget.owner, repo |-> baseTarget.repo,
                              ref |-> baseTarget.ref, path |-> directoryPath,
                              originalUrl |-> buildGitHubTreeUrl(baseTarget.owner,
                                  baseTarget.repo, baseTarget.ref, directoryPath),
                              alreadyInstalled |-> name \in existingSkills]]

NameLess(a, b) == SegRank(a) < SegRank(b)

\* a child scan that walks the whole tree of the child directory
discoverDirectoryRequestsWalking(repo, directoryPath) ==
  collectGitHubFileShasRequests(repo, directoryPath) \o
  (IF \E e \in fetchGitHubDirectory(repo, directoryPath) :
        e.type = "file" /\ e.name = SKILL_MD
   THEN <<Req("file", directoryPath \o <<SKILL_MD>>)>> ELSE <<>>)

\* a download of the file at path and of the files next to it
fetchSiblingFileBytesRequests(repo, path) ==
  LET dir == SubSeq(path, 1, Len(path) - 1)
  IN SeqOfSet({Req("file", e.path) :
                 e \in {x \in fetchGitHubDirectory(repo, dir) : x.type = "file"}})

\* the request fetchGitHubFileBytes sends for the file at path
fetchGitHubFileBytesRequests(repo, path) == <<Req("file", path)>>

\* the requests discoverGitHubSkillDirectory sends for one child directory:
\* its listing and, when that holds a file SKILL.md, the contents of it
discoverGitHubSkillDirectoryRequests(repo, directoryPath) ==
  <<Req("directory", directoryPath)>> \o
  (IF \E e \in fetchGitHubDirectory(repo, directoryPath) :
        e.type = "file" /\ e.name = SKILL_MD
   THEN fetchGitHubFileBytesRequests(repo, directoryPath \o <<SKILL_MD>>) ELSE <<>>)

\* a test that any entry of the listing, file or directory, is named SKILL.md
HasEntryNamedSkillMarkdown(entries) == \E e \in entries : e.name = SKILL_MD

\* rootEntries.some(entry => entry.type === 'file' && entry.name === 'SKILL.md')
HasSkillMarkdown(entries) == \E e \in entries : e.type = "file" /\ e.name = SKILL_MD

\* the orders in which the elements of S can be pushed to an array
Orderings(S) ==
  {f \in [1..Cardinality(S) -> S] : \A i, j \in DOMAIN f : i # j => f[i] # f[j]}

\* a warnings array that is returned in the order the child scans failed
WarningsAsPushed(pushed) == pushed

\* warnings.sort((a, b) => a.localeCompare(b)): a warning starts with the
\* name of its child directory
SortWarnings(pushed) == SortSeq(pushed, LAMBDA a, b : NameLess(a.name, b.name))

\* a discovery that returns the collection also when it is empty
EmptyCollectionReturned(skills) == FALSE

\* skills.length === 0
NoSkillsFound(skills) == Len(skills) = 0

\* discoverGitHubSkillInstallTarget(rawUrl); failing is the set of child
\* directories whose requests fail, pushed the order in which the failed
\* child scans complete.  The warnings a thrown discovery had recorded are
\* kept in the returned record (the caller does not see them).
discoverGitHubSkillInstallTarget(url) ==
  /\ mode = "idle"
  /\ \E branch \in {DEFAULT_BRANCH, Null} :
        LET parsed == parseGitHubSkillUrl(url, branch)
            parseReqs == parseGitHubSkillUrlRequests(url)
            lookup == LookupOutcome(url, branch)
            threwWith(e, w, reqs) ==
              ret' = [op |-> "discover", ok |-> FALSE, url |-> url,
                      err |-> e, warnings |-> w, requests |-> reqs,
                      lookup |-> lookup]
        IN IF ~parsed.ok THEN threwWith(parsed.err, <<>>, parseReqs)
           ELSE
           LET target == parsed.val
               rootReqs == parseReqs \o <<Req("directory", target.path)>>
           IN \/ threwWith(Err(E_NETWORK, "network"), <<>>, rootReqs)
              \/ IF ~DirExists(remote, target.path)
                 THEN threwWith(Err(E_NETWORK, "404"), <<>>, rootReqs)
                 ELSE
                 LET rootEntries == fetchGitHubDirectory(remote, target.path)
                     childDirectories == {e \in rootEntries : e.type = "dir"}
                     children == EntryPaths(remote, target.path, "dir")
                     existing == listUserSkillNames(store)
                 IN IF HasSkillMarkdown(rootEntries)
                    THEN ret' = [op |-> "discover", ok |-> TRUE, url |-> url,
                                 kind |-> "single", requests |-> rootReqs,
                                 lookup |-> lookup]
                    ELSE \E failing \in SUBSET {e.path : e \in childDirectories} :
                         LET outcome(e) ==
                               IF e.path \in failing
                               THEN [tag |-> "error", err |-> Err(E_NETWORK, "network")]
                               ELSE discoverGitHubSkillDirectory(remote, target,
                                                                 e.path, existing)
                             caught ==
                               {[name |-> e.name, err |-> outcome(e).err] :
                                  e \in {c \in childDirectories : outcome(c).tag = "error"}}
                             skills == SortSeq(SeqOfSet(
                               {outcome(e).skill :
                                  e \in {c \in childDirectories : outcome(c).tag = "skill"}}),
                               LAMBDA a, b : NameLess(a.skillName, b.skillName))
                             reqs == rootReqs \o ConcatAll(
                               [i \in 1..Len(children) |->
                                  IF children[i] \in failing
                                  THEN <<Req("directory", children[i])>>
                                  ELSE discoverGitHubSkillDirectoryRequests(remote, children[i])])
                         IN \E pushed \in Orderings(caught) :
                            LET warnings == SortWarnings(pushed)
                            IN
                            IF NoSkillsFound(skills)
                            THEN threwWith(Err(E_NO_SKILLS, ""), warnings, reqs)
                            ELSE ret' = [op |-> "discover", ok |-> TRUE, url |-> url,
                                         kind |-> "collection",
                                         path |-> target.path,
                                         skills |-> skills, warnings |-> warnings,
                                         requests |-> reqs, lookup |-> lookup]
  /\ UNCHANGED <<remote, store, origin, mode, tasks, fresh, checkLog, dIn, dOut, page>>

\* ------------------------------------------------------- stand-alone diff
\* diffGitHubSkillMetadata applied to an arbitrary stored file list and an
\* arbitrary remote listing of the directory skills/foo.
DiffShas == 3
DiffPaths == {<<"SKILL.md">>, <<"a.md">>, <<"refs", "b.md">>}
Hash(k) == computeGitBlobSha(Raw(k))

Listings(prefix) ==
  { SortByPath(SeqOfSet({[path |-> prefix \o p, sha |-> f[p]] : p \in DOMAIN f})) :
      f \in UNION {[P -> {Hash(k) : k \in 1..DiffShas}] : P \in SUBSET DiffPaths} }

FooTarget == [owner |-> OWNER, repo |-> REPO, ref |-> DEFAULT_BRANCH,
              path |-> FooDir, originalUrl |-> TreeUrl(FooDir)]

ApplyDiff ==
  /\ dOut = NoRet
  /\ dOut' = diffGitHubSkillMetadata("foo", SourceMetadata(FooTarget, dIn.stored),
                                     FooTarget, dIn.remote)
  /\ UNCHANGED <<remote, store, origin, mode, tasks, ret, fresh, checkLog, dIn, page>>

\* ------------------------------------------------------------------ specs
ManualDir(n) ==
  Dir((<<SKILL_MD>> :> BytesContent(NEW_SKILL_TEMPLATE(n))))

\* the store in which exactly the names of pre exist, as manual skills
StoreWith(pre) == [m \in AllNames |-> IF m \in pre THEN ManualDir(m) ELSE NoDir]
OriginWith(pre) == [m \in AllNames |-> IF m \in pre THEN "manual" ELSE "none"]

\* The Skills page after mount: the state of its useState hooks that the
\* handlers of the selected unit read and write, and the handlers in flight
\* (save, check, preview: 0 or 1; delete: a count; force: its phase).
PageIdle(selected, source) ==
  [selected |-> selected, source |-> source,
   saving |-> FALSE, checkingUpdate |-> FALSE,
   preparingForceUpdate |-> FALSE, forcingUpdate |-> FALSE,
   deleteTarget |-> FALSE, forceUpdatePreview |-> FALSE,
   updateResult |-> FALSE,
   save |-> 0, delete |-> 0, check |-> 0, preview |-> 0, force |-> "none"]

InitCommon ==
  /\ page = PageIdle(FALSE, FALSE)
  /\ mode = "idle"
  /\ tasks = <<>>
  /\ ret = NoRet
  /\ fresh = [n \in AllNames |-> FALSE]
  /\ checkLog = [n \in AllNames |-> <<>>]
  /\ dOut = NoRet

NoDiffIn == [stored |-> <<>>, remote |-> <<>>]

Init ==
  /\ InitCommon
  /\ remote \in Range(Revisions)
  /\ store = StoreWith({})
  /\ origin = OriginWith({})
  /\ dIn = NoDiffIn

\* the URLs a user submits
Urls ==
  { Url(<<OWNER, REPO>>), TreeUrl(<<>>), TreeUrl(FooDir), TreeUrl(BarDir),
    TreeUrl(<<"skills">>), Url(<<OWNER>>), Url(<<OWNER, REPO, "blob", "main", "x">>),
    Url(<<OWNER, REPO, "tree">>),
    [wellFormed |-> TRUE, host |-> "gitlab.com", parts |-> <<OWNER, REPO>>],
    [wellFormed |-> FALSE, host |-> "", parts |-> <<>>] }

\* the URLs installs are started with
InstallUrls ==
  { Url(<<OWNER, REPO>>), TreeUrl(FooDir), TreeUrl(BarDir),
    Url(<<OWNER, REPO, "blob", "main", "x">>) }

DiscoverUrls == { TreeUrl(<<"skills">>) }

EditedMarkdown(n) == Manifest(n, 9)

TaskStep(i) ==
  \/ ParseUrl(i)
  \/ FetchBundle(i)
  \/ CheckExisting(i)
  \/ MakeDir(i)
  \/ WriteBundleFile(i)
  \/ WriteSidecar(i)
  \/ ForceFetch(i)
  \/ ForceDelete(i)

Next ==
  \/ \E url \in InstallUrls : StartInstall(url)
  \/ \E i \in DOMAIN tasks : TaskStep(i)
  \/ FinishInstall
  \/ \E n \in Names \cup {INVALID_NAME} : createUserSkillScaffold(n)
  \/ \E n \in Names : writeUserSkillMarkdown(n, EditedMarkdown(n))
  \/ \E n \in Names : deleteUserSkill(n)
  \/ \E n \in Names : checkGitHubSkillUpdate(n)
  \/ \E n \in Names : previewGitHubSkillForceUpdate(n)
  \/ \E n \in Names : StartForceUpdate(n)
  \/ FinishForceUpdate
  \/ \E url \in DiscoverUrls : discoverGitHubSkillInstallTarget(url)
  \/ RemoteChange

Spec == Init /\ [][Next]_vars

\* Batch install of the first n units of the collection, some of which
\* already exist locally as manual skills.
BatchSkills(n) ==
  [i \in 1..n |->
     [skillName |-> UnitNames[i], owner |-> OWNER, repo |-> REPO,
      ref |-> DEFAULT_BRANCH, path |-> <<"skills", UnitNames[i]>>,
      originalUrl |-> TreeUrl(<<"skills", UnitNames[i]>>),
      alreadyInstalled |-> FALSE]]

ScenarioSize == 5

InitBatch ==
  /\ InitCommon
  /\ dIn = NoDiffIn
  /\ \E n \in 1..ScenarioSize :
     \E pre \in SUBSET (1..n) :
       /\ n > MaxBatch => pre = {1}
       /\ remote = CollectionRev(n)
       /\ store = StoreWith({UnitNames[i] : i \in pre})
       /\ origin = OriginWith({UnitNames[i] : i \in pre})

BatchSize == Cardinality({p \in DOMAIN remote : p[3] = SKILL_MD})

NextBatch ==
  \/ (ret = NoRet /\ StartBatch(BatchSkills(BatchSize)))
  \/ \E i \in DOMAIN tasks : FetchBundle(i)
  \/ \E i \in DOMAIN tasks : CheckExisting(i)
  \/ \E i \in DOMAIN tasks : MakeDir(i)
  \/ \E i \in DOMAIN tasks : WriteBundleFile(i)
  \/ \E i \in DOMAIN tasks : WriteSidecar(i)
  \/ FinishBatch

SpecBatch == InitBatch /\ [][NextBatch]_vars

\* the SKILL.md of skills/foo declares a name that is no valid skill name;
\* skills/bar is an installable skill
Rev6 ==
  (FooDir \o <<"SKILL.md">> :> Manifest(INVALID_NAME, 1)) @@
  (BarDir \o <<"SKILL.md">> :> Manifest("bar", 1))

\* Discovery of any URL against any revision and any set of local skills.
InitDiscover ==
  /\ InitCommon
  /\ dIn = NoDiffIn
  /\ remote \in Range(Revisions) \cup {CollectionRev(MaxBatch), Rev6}
  /\ \E pre \in SUBSET (Names \cup {UnitNames[1]}) :
       /\ store = StoreWith(pre)
       /\ origin = OriginWith(pre)

NextDiscover ==
  /\ ret = NoRet
  /\ \E url \in Urls : discoverGitHubSkillInstallTarget(url)

SpecDiscover == InitDiscover /\ [][NextDiscover]_vars

\* the URLs of the resolver: those of Urls and a bare repository URL on the
\* www host
ResolveUrls ==
  Urls \cup {[wellFormed |-> TRUE, host |-> "www.github.com", parts |-> <<OWNER, REPO>>]}

\* One discovery or one single install of any URL against any revision.
InitResolve ==
  /\ InitCommon
  /\ dIn = NoDiffIn
  /\ remote \in Range(Revisions) \cup {Rev5, Rev6, CollectionRev(MaxBatch)}
  /\ \E pre \in SUBSET Names :
       /\ store = StoreWith(pre)
       /\ origin = OriginWith(pre)

NextResolve ==
  \/ (ret = NoRet /\ \E url \in ResolveUrls : discoverGitHubSkillInstallTarget(url))
  \/ (ret = NoRet /\ \E url \in ResolveUrls : StartInstall(url))
  \/ \E i \in DOMAIN tasks : ParseUrl(i)
  \/ \E i \in DOMAIN tasks : FetchBundle(i)
  \/ \E i \in DOMAIN tasks : CheckExisting(i)
  \/ \E i \in DOMAIN tasks : MakeDir(i)
  \/ \E i \in DOMAIN tasks : WriteBundleFile(i)
  \/ \E i \in DOMAIN tasks : WriteSidecar(i)
  \/ FinishInstall

SpecResolve == InitResolve /\ [][NextResolve]_vars

\* A unit foo that was installed from skills/foo or from the repository
\* root, whose sidecar is as written, absent or malformed, and on which one
\* update check, preview or force update runs against any revision.
RootTarget == [owner |-> OWNER, repo |-> REPO, ref |-> DEFAULT_BRANCH,
               path |-> <<>>, originalUrl |-> Url(<<OWNER, REPO>>)]

\* the content files an install of target from repo leaves behind
InstalledFiles(repo, target) ==
  LET files == fetchGitHubSkillBundle(repo, target).val.files
  IN [p \in {toRelativeSkillPath(target.path, files[i].path) : i \in DOMAIN files} |->
        BytesContent(repo[target.path \o p])]

\* the metadata that install persists
InstalledMetadata(repo, target) ==
  SourceMetadata(target, fetchGitHubSkillBundle(repo, target).val.files)

\* the sidecars that make a unit untracked: not JSON, another version or
\* type, a field that is missing or not a string, files that is no array
MalformedSidecars(m) ==
  { BytesContent(Raw(7)),
    JsonContent([m EXCEPT !.version = 2]),
    JsonContent([m EXCEPT !.type = "gitlab"]),
    JsonContent([m EXCEPT !.owner = NonString]),
    JsonContent([m EXCEPT !.path = NonStringPath]),
    JsonContent([m EXCEPT !.originalUrl = NonStringUrl]),
    JsonContent([m EXCEPT !.files = NonArray]) }

InitTracked ==
  /\ InitCommon
  /\ dIn = NoDiffIn
  /\ remote \in Range(Revisions) \cup {Rev5}
  /\ origin = [OriginWith({}) EXCEPT !["foo"] = "github"]
  /\ \E from \in {<<Rev1, FooTarget>>, <<Rev4, RootTarget>>} :
       LET content == InstalledFiles(from[1], from[2])
           m == InstalledMetadata(from[1], from[2])
       IN \/ store = [StoreWith({}) EXCEPT !["foo"] = Dir(content)]
          \/ \E c \in MalformedSidecars(m) \cup {JsonContent(m)} :
               store = [StoreWith({}) EXCEPT !["foo"] =
                          Dir(WriteFile(content, SOURCE_METADATA_FILENAME, c))]

NextTracked ==
  \/ (ret = NoRet /\ checkGitHubSkillUpdate("foo"))
  \/ (ret = NoRet /\ previewGitHubSkillForceUpdate("foo"))
  \/ (ret = NoRet /\ StartForceUpdate("foo"))
  \/ \E i \in DOMAIN tasks : ForceFetch(i)
  \/ \E i \in DOMAIN tasks : ForceDelete(i)
  \/ \E i \in DOMAIN tasks : MakeDir(i)
  \/ \E i \in DOMAIN tasks : WriteBundleFile(i)
  \/ \E i \in DOMAIN tasks : WriteSidecar(i)
  \/ FinishForceUpdate

SpecTracked == InitTracked /\ [][NextTracked]_vars

\* Installs of skills/foo, one after the other, into a store that starts
\* empty: every directory foo there is was left by an earlier install.
InitRetry ==
  /\ InitCommon
  /\ dIn = NoDiffIn
  /\ remote \in {Rev1, Rev2, Rev3}
  /\ store = StoreWith({})
  /\ origin = OriginWith({})

NextRetry ==
  \/ StartInstall(TreeUrl(FooDir))
  \/ \E i \in DOMAIN tasks : ParseUrl(i)
  \/ \E i \in DOMAIN tasks : FetchBundle(i)
  \/ \E i \in DOMAIN tasks : CheckExisting(i)
  \/ \E i \in DOMAIN tasks : MakeDir(i)
  \/ \E i \in DOMAIN tasks : WriteBundleFile(i)
  \/ \E i \in DOMAIN tasks : WriteSidecar(i)
  \/ FinishInstall

SpecRetry == InitRetry /\ [][NextRetry]_vars

\* ---------------------------------------------------------- Skills page
\* The handlers of the Skills page on one selected unit, foo, that was
\* installed from skills/foo.  A handler is in flight from the click that
\* calls it to the end of its finally block; its effect on the store is
\* taken at the step that ends it.
MaxDeletes == 2

\* an open dialog lies over the buttons of the page
ModalOpen == page.deleteTarget \/ page.forceUpdatePreview

\* the unit and its action buttons are rendered
Rendered == page.selected /\ ~ModalOpen

\* loadData: the page reads the namespace again, selects the unit when it is
\* still there and closes the force-update dialog
loadData(pg, st) ==
  IF st["foo"].exists
  THEN [pg EXCEPT !.selected = TRUE,
                  !.source = readGitHubSkillSourceMetadata(st, "foo") # NoMeta,
                  !.updateResult = FALSE,
                  !.forceUpdatePreview = FALSE]
  ELSE [pg EXCEPT !.selected = FALSE, !.source = FALSE, !.updateResult = FALSE]

PageOnly == UNCHANGED <<remote, store, origin, mode, tasks, ret, fresh, checkLog, dIn, dOut>>
PageAndStore == UNCHANGED <<remote, origin, mode, tasks, ret, fresh, checkLog, dIn, dOut>>

\* the Save button (disabled while saving) calls handleSave
ClickSave ==
  /\ Rendered
  /\ ~page.saving
  /\ page' = [page EXCEPT !.saving = TRUE, !.save = 1]
  /\ PageOnly

\* handleSave: writeUserSkillMarkdown, then loadData, then the finally block
FinishSave ==
  /\ page.save = 1
  /\ store' = [store EXCEPT !["foo"] =
                 Dir(WriteFile(@.files, <<SKILL_MD>>, BytesContent(Manifest("foo", 9))))]
  /\ page' = [loadData(page, store') EXCEPT !.saving = FALSE, !.save = 0]
  /\ PageAndStore

\* the Delete button of the page opens the dialog
ClickDelete ==
  /\ Rendered
  /\ page' = [page EXCEPT !.deleteTarget = TRUE]
  /\ PageOnly

\* Cancel, or a click on the backdrop, closes the delete dialog
CancelDelete ==
  /\ page.deleteTarget
  /\ page' = [page EXCEPT !.deleteTarget = FALSE]
  /\ PageOnly

\* the Delete button of the dialog calls handleDelete(deleteTarget)
ConfirmDelete ==
  /\ page.deleteTarget
  /\ page.delete < MaxDeletes
  /\ page' = [page EXCEPT !.delete = @ + 1]
  /\ PageOnly

\* handleDelete: deleteUserSkill, setDeleteTarget(null), loadData; or the
\* catch block when the directory is gone
FinishDelete ==
  /\ page.delete > 0
  /\ IF store["foo"].exists
     THEN /\ store' = RemoveEntry(store, "foo")
          /\ page' = [loadData([page EXCEPT !.deleteTarget = FALSE], store')
                        EXCEPT !.delete = @ - 1]
     ELSE /\ store' = store
          /\ page' = [page EXCEPT !.delete = @ - 1]
  /\ PageAndStore

\* the Check update button calls handleCheckUpdate
ClickCheckUpdate ==
  /\ Rendered
  /\ page.source
  /\ ~(page.checkingUpdate \/ page.forcingUpdate)
  /\ page' = [page EXCEPT !.checkingUpdate = TRUE, !.check = 1]
  /\ PageOnly

\* handleCheckUpdate: the check returned its result, or it threw (the unit
\* is not tracked any more, a request failed)
FinishCheckUpdate ==
  /\ page.check = 1
  /\ \E returned \in {b \in BOOLEAN : b => readGitHubSkillSourceMetadata(store, "foo") # NoMeta} :
       page' = [page EXCEPT !.checkingUpdate = FALSE, !.check = 0,
                            !.updateResult = IF returned THEN TRUE ELSE @]
  /\ PageOnly

\* the Force update button calls handleRequestForceUpdate
ClickForceUpdate ==
  /\ Rendered
  /\ page.source
  /\ ~(page.preparingForceUpdate \/ page.forcingUpdate \/ page.checkingUpdate)
  /\ page' = [page EXCEPT !.preparingForceUpdate = TRUE, !.preview = 1]
  /\ PageOnly

\* handleRequestForceUpdate: the preview opens the dialog, or it threw
FinishPreview ==
  /\ page.preview = 1
  /\ page' = [page EXCEPT
                !.preparingForceUpdate = FALSE, !.preview = 0,
                !.forceUpdatePreview =
                   IF readGitHubSkillSourceMetadata(store, "foo") # NoMeta THEN TRUE ELSE @]
  /\ PageOnly

\* the Cancel button of the force-update dialog (disabled while updating),
\* or a click on its backdrop (never disabled)
CloseForceUpdateDialog ==
  /\ page.forceUpdatePreview
  /\ page' = [page EXCEPT !.forceUpdatePreview = FALSE]
  /\ PageOnly

\* the Overwrite button (disabled while updating) calls
\* handleConfirmForceUpdate
ConfirmForceUpdate ==
  /\ page.forceUpdatePreview
  /\ ~page.forcingUpdate
  /\ page.selected
  /\ page.source
  /\ page' = [page EXCEPT !.forcingUpdate = TRUE, !.force = "fetch"]
  /\ PageOnly

\* forceUpdateGitHubSkill up to its deleteUserSkill: it throws (not tracked,
\* a failed request, a changed name) or it has deleted the directory
ForceUpdateDeletes ==
  /\ page.force = "fetch"
  /\ \/ /\ page' = [page EXCEPT !.forcingUpdate = FALSE, !.force = "none"]
        /\ store' = store
     \/ /\ readGitHubSkillSourceMetadata(store, "foo") # NoMeta
        /\ fetchGitHubSkillBundle(remote, FooTarget).ok
        /\ store' = RemoveEntry(store, "foo")
        /\ page' = [page EXCEPT !.force = "rewrite"]
  /\ PageAndStore

\* forceUpdateGitHubSkill from getUserSkillDir to the sidecar write, then
\* loadData and the finally block of handleConfirmForceUpdate
FinishForceUpdateOnPage ==
  /\ page.force = "rewrite"
  /\ store' = [store EXCEPT !["foo"] =
                 Dir(WriteFile(InstalledFiles(remote, FooTarget) @@ @.files,
                               SOURCE_METADATA_FILENAME,
                               JsonContent(InstalledMetadata(remote, FooTarget))))]
  /\ page' = [loadData(page, store') EXCEPT !.forcingUpdate = FALSE, !.force = "none"]
  /\ PageAndStore

InitPage ==
  /\ mode = "idle"
  /\ tasks = <<>>
  /\ ret = NoRet
  /\ fresh = [n \in AllNames |-> FALSE]
  /\ checkLog = [n \in AllNames |-> <<>>]
  /\ dOut = NoRet
  /\ dIn = NoDiffIn
  /\ remote \in {Rev1, Rev2}
  /\ origin = [OriginWith({}) EXCEPT !["foo"] = "github"]
  /\ store = [StoreWith({}) EXCEPT !["foo"] =
                Dir(WriteFile(InstalledFiles(Rev1, FooTarget), SOURCE_METADATA_FILENAME,
                              JsonContent(InstalledMetadata(Rev1, FooTarget))))]
  /\ page = PageIdle(TRUE, TRUE)

NextPage ==
  \/ ClickSave
  \/ FinishSave
  \/ ClickDelete
  \/ CancelDelete
  \/ ConfirmDelete
  \/ FinishDelete
  \/ ClickCheckUpdate
  \/ FinishCheckUpdate
  \/ ClickForceUpdate
  \/ FinishPreview
  \/ CloseForceUpdateDialog
  \/ ConfirmForceUpdate
  \/ ForceUpdateDeletes
  \/ FinishForceUpdateOnPage

SpecPage == InitPage /\ [][NextPage]_vars

\* One batch install, or one single install of the first unit, of units
\* that were discovered as not installed and of which some exist locally
\* by the time the install runs.
StaleUrl == TreeUrl(<<"skills", UnitNames[1]>>)

NextStale ==
  \/ (ret = NoRet /\ StartBatch(BatchSkills(BatchSize)))
  \/ (ret = NoRet /\ StartInstall(StaleUrl))
  \/ \E i \in DOMAIN tasks : ParseUrl(i)
  \/ \E i \in DOMAIN tasks : FetchBundle(i)
  \/ \E i \in DOMAIN tasks : CheckExisting(i)
  \/ \E i \in DOMAIN tasks : MakeDir(i)
  \/ \E i \in DOMAIN tasks : WriteBundleFile(i)
  \/ \E i \in DOMAIN tasks : WriteSidecar(i)
  \/ FinishBatch
  \/ FinishInstall

SpecStale == InitBatch /\ [][NextStale]_vars

\* --------------------------------------------------------- unit selection
\* The Skills page with several units in its list: the first two units of
\* the collection are installed from GitHub (each with a local file that
\* the remote lacks), foo is a manual unit. The hooks hold unit names here:
\* selectedGitHubSource the unit whose sidecar was loaded, updateResult and
\* forceUpdatePreview the skillName of the result they hold (NoName: null).
\* selecting, checking, previewing and forcing are the arguments of the
\* handlers in flight; forced is the last call of forceUpdateGitHubSkill: its
\* argument and the skillName the confirmed dialog showed.
SelectUnits == {UnitNames[1], UnitNames[2], "foo"}

UnitTarget(n) == [owner |-> OWNER, repo |-> REPO, ref |-> DEFAULT_BRANCH,
                  path |-> <<"skills", n>>, originalUrl |-> TreeUrl(<<"skills", n>>)]

InstalledDir(repo, n) ==
  Dir(WriteFile(InstalledFiles(repo, UnitTarget(n)), SOURCE_METADATA_FILENAME,
                JsonContent(InstalledMetadata(repo, UnitTarget(n)))))

SelectIdle(name, st) ==
  [selectedName |-> name,
   selectedGitHubSource |->
     IF readGitHubSkillSourceMetadata(st, name) # NoMeta THEN name ELSE NoName,
   updateResult |-> NoName, forceUpdatePreview |-> NoName,
   checkingUpdate |-> FALSE, preparingForceUpdate |-> FALSE, forcingUpdate |-> FALSE,
   selecting |-> {}, checking |-> NoName, previewing |-> NoName, forcing |-> NoName,
   forced |-> [unit |-> NoName, shown |-> NoName]]

\* the editor of the selected unit is rendered and no dialog covers the page
EditorShown == page.selectedName # NoName /\ page.forceUpdatePreview = NoName

\* a click on a unit of the list (its button is never disabled):
\* handleSelectSkill up to its first await
handleSelectSkill(name) ==
  /\ page.forceUpdatePreview = NoName
  /\ page' = [page EXCEPT !.selectedName = name, !.selecting = @ \cup {name}]
  /\ PageOnly

\* handleSelectSkill after its awaits: the sidecar of the unit, no update
\* result; the catch block when the unit cannot be read
SelectSkillLoaded(name) ==
  /\ name \in page.selecting
  /\ page' = IF store[name].exists
             THEN [page EXCEPT
                     !.selecting = @ \ {name},
                     !.selectedGitHubSource =
                        IF readGitHubSkillSourceMetadata(store, name) # NoMeta
                        THEN name ELSE NoName,
                     !.updateResult = NoName]
             ELSE [page EXCEPT
                     !.selecting = @ \ {name},
                     !.selectedGitHubSource = NoName,
                     !.updateResult = NoName,
                     !.forceUpdatePreview = NoName]
  /\ PageOnly

\* the Check update button: handleCheckUpdate up to its await
handleCheckUpdate ==
  /\ EditorShown
  /\ page.selectedGitHubSource # NoName
  /\ ~(page.checkingUpdate \/ page.forcingUpdate)
  /\ page' = [page EXCEPT !.checkingUpdate = TRUE, !.checking = page.selectedName]
  /\ PageOnly

\* checkGitHubSkillUpdate returned its result or threw
CheckUpdateReturns ==
  /\ page.checking # NoName
  /\ \/ /\ readGitHubSkillSourceMetadata(store, page.checking) # NoMeta
        /\ page' = [page EXCEPT !.checkingUpdate = FALSE, !.checking = NoName,
                                !.updateResult = page.checking]
     \/ page' = [page EXCEPT !.checkingUpdate = FALSE, !.checking = NoName]
  /\ PageOnly

\* the Force update button: handleRequestForceUpdate up to its await
handleRequestForceUpdate ==
  /\ EditorShown
  /\ page.selectedGitHubSource # NoName
  /\ ~(page.preparingForceUpdate \/ page.forcingUpdate \/ page.checkingUpdate)
  /\ page' = [page EXCEPT !.preparingForceUpdate = TRUE,
                          !.previewing = page.selectedName]
  /\ PageOnly

\* previewGitHubSkillForceUpdate returned: its preview opens the dialog
PreviewReturns ==
  /\ page.previewing # NoName
  /\ page' = [page EXCEPT
                !.preparingForceUpdate = FALSE, !.previewing = NoName,
                !.forceUpdatePreview =
                   IF readGitHubSkillSourceMetadata(store, page.previewing) # NoMeta
                   THEN page.previewing ELSE @]
  /\ PageOnly

\* Cancel, or a click on the backdrop of the dialog
DismissForceUpdateDialog ==
  /\ page.forceUpdatePreview # NoName
  /\ page' = [page EXCEPT !.forceUpdatePreview = NoName]
  /\ PageOnly

\* the dialog's Overwrite button: handleConfirmForceUpdate up to its await
handleConfirmForceUpdate ==
  /\ page.forceUpdatePreview # NoName
  /\ ~page.forcingUpdate
  /\ page.selectedName # NoName
  /\ page.selectedGitHubSource # NoName
  /\ page' = [page EXCEPT
                !.forcingUpdate = TRUE, !.forcing = page.selectedName,
                !.forced = [unit |-> page.selectedName,
                            shown |-> page.forceUpdatePreview]]
  /\ PageOnly

\* forceUpdateGitHubSkill threw before it deleted anything, or it rewrote
\* the unit and the handler reloaded the list and selected the unit
ForceUpdateReturns ==
  /\ page.forcing # NoName
  /\ \/ /\ page' = [page EXCEPT !.forcingUpdate = FALSE, !.forcing = NoName]
        /\ store' = store
     \/ /\ readGitHubSkillSourceMetadata(store, page.forcing) # NoMeta
        /\ store' = [store EXCEPT ![page.forcing] = InstalledDir(remote, page.forcing)]
        /\ page' = [page EXCEPT
                      !.forcingUpdate = FALSE, !.forcing = NoName,
                      !.selectedName = page.forcing,
                      !.selectedGitHubSource = page.forcing,
                      !.updateResult = NoName,
                      !.forceUpdatePreview = NoName]
  /\ PageAndStore

InitSelect ==
  /\ mode = "idle"
  /\ tasks = <<>>
  /\ ret = NoRet
  /\ fresh = [n \in AllNames |-> FALSE]
  /\ checkLog = [n \in AllNames |-> <<>>]
  /\ dOut = NoRet
  /\ dIn = NoDiffIn
  /\ remote = CollectionRev(2)
  /\ origin = [n \in AllNames |->
                 IF n \in {UnitNames[1], UnitNames[2]} THEN "github"
                 ELSE IF n = "foo" THEN "manual" ELSE "none"]
  /\ store = [n \in AllNames |->
                IF n \in {UnitNames[1], UnitNames[2]}
                THEN Dir(WriteFile(InstalledDir(remote, n).files, <<"b.md">>,
                                   BytesContent(Raw(2))))
                ELSE IF n = "foo" THEN ManualDir(n) ELSE NoDir]
  /\ page = SelectIdle(UnitNames[1], store)

NextSelect ==
  \/ \E name \in SelectUnits : handleSelectSkill(name)
  \/ \E name \in SelectUnits : SelectSkillLoaded(name)
  \/ handleCheckUpdate
  \/ CheckUpdateReturns
  \/ handleRequestForceUpdate
  \/ PreviewReturns
  \/ DismissForceUpdateDialog
  \/ handleConfirmForceUpdate
  \/ ForceUpdateReturns

SpecSelect == InitSelect /\ [][NextSelect]_vars

\* ------------------------------------------------------- concurrent walk
\* collectGitHubFiles as it runs: the listing requests (pendingDirs) and the
\* file requests (pendingFiles) in flight complete in any order, each
\* completed file request pushes to the shared array files, and the caller
\* sorts the array once the walk has settled.
Walk(target) ==
  [kind |-> "collect", pc |-> "walk", target |-> target,
   pendingDirs |-> {target.path}, pendingFiles |-> {}, files |-> <<>>]

\* the listing of directory d arrives: one request per entry is sent
ListDirectory(d) ==
  /\ tasks # <<>>
  /\ tasks[1].pc = "walk"
  /\ d \in tasks[1].pendingDirs
  /\ LET entries == fetchGitHubDirectory(remote, d)
     IN tasks' = <<[tasks[1] EXCEPT
                      !.pendingDirs = (@ \ {d}) \cup
                                      {e.path : e \in {x \in entries : x.type = "dir"}},
                      !.pendingFiles = @ \cup {x \in entries : x.type = "file"}]>>
  /\ ret' = NoRet
  /\ UNCHANGED <<remote, store, origin, mode, fresh, checkLog, dIn, dOut, page>>

\* the contents of a file arrive: files.push({ path, sha, bytes })
FetchFile(entry) ==
  /\ tasks # <<>>
  /\ tasks[1].pc = "walk"
  /\ entry \in tasks[1].pendingFiles
  /\ tasks' = <<[tasks[1] EXCEPT
                   !.pendingFiles = @ \ {entry},
                   !.files = Append(@, [path |-> entry.path, sha |-> entry.sha,
                                        bytes |-> remote[entry.path]])]>>
  /\ ret' = NoRet
  /\ UNCHANGED <<remote, store, origin, mode, fresh, checkLog, dIn, dOut, page>>

\* a request in flight fails: Promise.all rejects and the walk throws
WalkRequestFails ==
  /\ tasks # <<>>
  /\ tasks[1].pc = "walk"
  /\ tasks[1].pendingDirs # {} \/ tasks[1].pendingFiles # {}
  /\ tasks' = <<[tasks[1] EXCEPT !.pc = "err"]>>
  /\ ret' = [op |-> "collect", ok |-> FALSE, target |-> tasks[1].target,
             err |-> Err(E_NETWORK, "network"), files |-> <<>>]
  /\ UNCHANGED <<remote, store, origin, mode, fresh, checkLog, dIn, dOut, page>>

\* every request was answered: fetchGitHubSkillBundle sorts and returns
WalkReturns ==
  /\ tasks # <<>>
  /\ tasks[1].pc = "walk"
  /\ tasks[1].pendingDirs = {} /\ tasks[1].pendingFiles = {}
  /\ tasks' = <<[tasks[1] EXCEPT !.pc = "ok"]>>
  /\ ret' = [op |-> "collect", ok |-> TRUE, target |-> tasks[1].target,
             err |-> NoErr, files |-> SortByPath(tasks[1].files)]
  /\ UNCHANGED <<remote, store, origin, mode, fresh, checkLog, dIn, dOut, page>>

\* One walk of skills/foo or of the repository root in any revision.
InitCollect ==
  /\ page = PageIdle(FALSE, FALSE)
  /\ mode = "idle"
  /\ ret = NoRet
  /\ fresh = [n \in AllNames |-> FALSE]
  /\ checkLog = [n \in AllNames |-> <<>>]
  /\ dOut = NoRet
  /\ dIn = NoDiffIn
  /\ remote \in Range(Revisions)
  /\ store = StoreWith({})
  /\ origin = OriginWith({})
  /\ \E target \in {FooTarget, RootTarget} : tasks = <<Walk(target)>>

NextCollect ==
  \/ \E d \in tasks[1].pendingDirs : ListDirectory(d)
  \/ \E entry \in tasks[1].pendingFiles : FetchFile(entry)
  \/ WalkRequestFails
  \/ WalkReturns

SpecCollect == InitCollect /\ [][NextCollect]_vars

\* --------------------------------------------------------- skill registry
\* skills.ts: the registry that loadSkills builds from the built-in skills
\* and the directories of the local skills namespace.  A record keeps the
\* name, the source, the directory it was read from and whether it is valid;
\* description and compatibility are left out (every SKILL.md of the model
\* that declares a name has a description).
BUILTIN_SKILL_BODIES == [d \in {UnitNames[1], UnitNames[2]} |-> Manifest(d, 1)]

\* validateSkill: the codes of the errors of a declared name
validateSkill(name, directoryName) ==
  IF name = NoName THEN {"name_required"}
  ELSE (IF validateSkillName(name) # Null THEN {"name_format"} ELSE {})
       \cup (IF name # directoryName THEN {"name_directory_mismatch"} ELSE {})

\* the record of one skill directory: name is frontmatter.name || skillName
SkillRecord(source, skillName, bytes) ==
  [name |-> IF parseSkillFrontmatter(bytes) # NoName
            THEN parseSkillFrontmatter(bytes) ELSE skillName,
   source |-> source, directory |-> skillName,
   valid |-> validateSkill(parseSkillFrontmatter(bytes), skillName) = {}]

\* loadBuiltinSkills: one record per bundled SKILL.md
loadBuiltinSkills ==
  LET dirs == SortSeq(SeqOfSet(DOMAIN BUILTIN_SKILL_BODIES), NameLess)
  IN [i \in DOMAIN dirs |-> SkillRecord("builtin", dirs[i], BUILTIN_SKILL_BODIES[dirs[i]])]

\* loadUserSkills: one record per directory of the namespace, in the order
\* the directory iterator yields them; a directory without a readable
\* SKILL.md is a record with a parse error
loadUserSkills(st, order) ==
  [i \in DOMAIN order |->
     SkillRecord("user", order[i],
                 IF <<SKILL_MD>> \in DOMAIN st[order[i]].files
                 THEN readUserSkillFileBytes(st, order[i], <<SKILL_MD>>)
                 ELSE Raw(0))]

RECURSIVE MapSetAll(_, _)
\* for (const skill of records) merged.set(skill.name, skill)
MapSetAll(merged, records) ==
  IF records = <<>> THEN merged
  ELSE LET skill == Head(records)
       IN MapSetAll([n \in DOMAIN merged \cup {skill.name} |->
                       IF n = skill.name THEN skill ELSE merged[n]],
                    Tail(records))

\* a merge in which the built-in skills are set last
mergeBuiltinLast(builtin, user) == MapSetAll(MapSetAll(EmptyDir, user), builtin)

\* the Map of loadSkills: the built-in records, then the user records
mergeSkills(builtin, user) == MapSetAll(MapSetAll(EmptyDir, builtin), user)

\* loadSkills: the merged records sorted by name
loadSkills ==
  /\ mode = "idle"
  /\ \E order \in Orderings(listUserSkillNames(store)) :
       LET merged == mergeSkills(loadBuiltinSkills, loadUserSkills(store, order))
       IN ret' = [op |-> "loadSkills", ok |-> TRUE,
                  skills |-> SortSeq(SeqOfSet(Range(merged)),
                                     LAMBDA a, b : NameLess(a.name, b.name))]
  /\ UNCHANGED <<remote, store, origin, mode, tasks, fresh, checkLog, dIn, dOut, page>>

\* the directories and the SKILL.md bodies the user saves in the registry
\* scenario: a directory of a built-in name, two of other names; bodies that
\* declare a built-in name, another name, or no name
RegistryDirs == {UnitNames[1], "foo", "bar"}
RegistryBodies == {Manifest(UnitNames[1], 2), Manifest(UnitNames[2], 2),
                   Manifest("foo", 2), Raw(2)}

InitRegistry ==
  /\ InitCommon
  /\ dIn = NoDiffIn
  /\ remote = Rev1
  /\ store = StoreWith({})
  /\ origin = OriginWith({})

NextRegistry ==
  \/ \E n \in RegistryDirs, content \in RegistryBodies : writeUserSkillMarkdown(n, content)
  \/ loadSkills

SpecRegistry == InitRegistry /\ [][NextRegistry]_vars

\* ------------------------------------------------------ directory names
\* The operations that create a unit directory, called with the names a
\* caller can pass: a well-formed name, a name the pattern rejects, and a
\* well-formed name with a leading blank.
NameInputs == {"foo", INVALID_NAME, PADDED_NAME}

InitNames ==
  /\ InitCommon
  /\ dIn = NoDiffIn
  /\ remote \in {Rev1, Rev2}
  /\ store = [n \in AllNames \cup NameInputs |-> NoDir]
  /\ origin = [n \in AllNames \cup NameInputs |-> "none"]

NextNames ==
  \/ \E n \in NameInputs : createUserSkillScaffold(n)
  \/ \E n \in NameInputs : writeUserSkillMarkdown(n, EditedMarkdown("foo"))
  \/ StartInstall(TreeUrl(FooDir))
  \/ \E i \in DOMAIN tasks : TaskStep(i)
  \/ FinishInstall
  \/ StartForceUpdate("foo")
  \/ FinishForceUpdate

SpecNames == InitNames /\ [][NextNames]_vars

\* ------------------------------------------------------- unedited units
\* Installs, force updates and previews against a repository that changes,
\* with no local edit: whatever a unit holds was written by an install or a
\* force update.
NextUnedited ==
  \/ \E url \in InstallUrls : StartInstall(url)
  \/ \E i \in DOMAIN tasks : TaskStep(i)
  \/ FinishInstall
  \/ \E n \in Names : previewGitHubSkillForceUpdate(n)
  \/ \E n \in Names : StartForceUpdate(n)
  \/ FinishForceUpdate
  \/ RemoteChange

SpecUnedited == Init /\ [][NextUnedited]_vars

\* ------------------------------------------------------ repeated units
\* One batch install whose list names a unit of the collection twice, into
\* an empty namespace.
RepeatedBatches ==
  LET u == BatchSkills(2)
  IN {<<u[1], u[1]>>, <<u[2], u[2]>>, <<u[1], u[2], u[1]>>}

InitRepeated ==
  /\ InitCommon
  /\ dIn = NoDiffIn
  /\ remote = CollectionRev(2)
  /\ store = StoreWith({})
  /\ origin = OriginWith({})

NextRepeated ==
  \/ (ret = NoRet /\ \E skills \in RepeatedBatches : StartBatch(skills))
  \/ \E i \in DOMAIN tasks : FetchBundle(i)
  \/ \E i \in DOMAIN tasks : CheckExisting(i)
  \/ \E i \in DOMAIN tasks : MakeDir(i)
  \/ \E i \in DOMAIN tasks : WriteBundleFile(i)
  \/ \E i \in DOMAIN tasks : WriteSidecar(i)
  \/ FinishBatch

SpecRepeated == InitRepeated /\ [][NextRepeated]_vars

\* ------------------------------------------------------ earlier installer
\* installSkillFromGitHubUrl as it was before the bulk import, with the
\* helpers it called, as functions of the URL, the remote tree, the local
\* store and the step that fails.
E_BAD_DIRECTORY_URL == "Use a GitHub directory URL like https"

\* the earlier parseGitHubSkillUrl: synchronous, tree URLs with a path only
\* (five segments or more make the path non-empty, so its last throw,
\* 'GitHub URL must point to a skill directory', cannot be reached)
parseGitHubSkillUrlEarlier(url) ==
  IF ~url.wellFormed THEN Fail(Err(E_BAD_URL, ""))
  ELSE IF url.host # "github.com" /\ url.host # "www.github.com"
       THEN Fail(Err(E_BAD_HOST, ""))
  ELSE IF Len(url.parts) < 5 \/ url.parts[3] # "tree"
       THEN Fail(Err(E_BAD_DIRECTORY_URL, ""))
  ELSE Ok([owner |-> url.parts[1], repo |-> url.parts[2],
           ref |-> url.parts[4],
           path |-> SubSeq(url.parts, 5, Len(url.parts)),
           originalUrl |-> url])

\* the name the frontmatter regex of the earlier version extracts
extractSkillNameFromMarkdown(bytes) == bytes.name

\* the earlier toRelativeSkillPath, which knew no empty root
toRelativeSkillPathEarlier(rootPath, fullPath) ==
  IF fullPath = rootPath THEN Throw
  ELSE IF ~IsPrefix(rootPath, fullPath) THEN Throw
  ELSE SubSeq(fullPath, Len(rootPath) + 1, Len(fullPath))

\* the earlier fetchGitHubSkillBundle
fetchGitHubSkillBundleEarlier(repo, target) ==
  IF ~DirExists(repo, target.path) THEN Fail(Err(E_NETWORK, "404"))
  ELSE LET rootEntries == fetchGitHubDirectory(repo, target.path)
           found == \E e \in rootEntries : e.type = "file" /\ e.name = SKILL_MD
       IN IF ~found THEN Fail(Err(E_NO_MANIFEST, ""))
          ELSE LET skillName == extractSkillNameFromMarkdown(repo[target.path \o <<SKILL_MD>>])
                   remoteDirName == remoteDirNameOf(target.path)
               IN IF skillName = NoName THEN Fail(Err(E_NO_FRONTMATTER, ""))
                  ELSE IF validateSkillName(skillName) # Null
                       THEN Fail(Err("Invalid skill name in SKILL.md:", skillName))
                  ELSE IF remoteDirName # Null /\ remoteDirName # skillName
                       THEN Fail(Err(E_NAME_MISMATCH, ""))
                  ELSE Ok([skillName |-> skillName,
                           files |-> SortByPath(SeqOfSet(
                                       collectGitHubFiles(repo, target.path)))])

\* the earlier writeGitHubSkillBundle after k iterations of its loop
RECURSIVE writeGitHubSkillBundleEarlier(_, _, _, _)
writeGitHubSkillBundleEarlier(dir, target, files, k) ==
  IF k = 0 THEN dir
  ELSE WriteFile(writeGitHubSkillBundleEarlier(dir, target, files, k - 1),
                 toRelativeSkillPathEarlier(target.path, files[k].path),
                 BytesContent(files[k].bytes))

\* the sidecar the earlier installer wrote
SourceMetadataEarlier(target, files) ==
  [version |-> 1, type |-> "github", owner |-> target.owner, repo |-> target.repo,
   ref |-> target.ref, path |-> target.path, originalUrl |-> target.originalUrl,
   files |-> [i \in 1..Len(files) |->
                [path |-> toRelativeSkillPathEarlier(target.path, files[i].path),
                 sha |-> files[i].sha]]]

Threw(e, reqs, st) ==
  [ok |-> FALSE, skillName |-> NoName, fileCount |-> 0, err |-> e,
   requests |-> reqs, store |-> st]

\* what the earlier installSkillFromGitHubUrl returns or throws, with the
\* requests it has sent and the store it leaves, for every step that can
\* fail: a request, the write of a file, the write of the sidecar
installSkillFromGitHubUrlEarlier(url, repo, st) ==
  LET parsed == parseGitHubSkillUrlEarlier(url)
  IN IF ~parsed.ok THEN {Threw(parsed.err, <<>>, st)}
     ELSE
     LET target == parsed.val
         sent == fetchGitHubSkillBundleRequests(repo, target)
         bundle == fetchGitHubSkillBundleEarlier(repo, target)
     IN {Threw(Err(E_NETWORK, "network"), SubSeq(sent, 1, k), st) : k \in 1..Len(sent)}
        \cup
        (IF ~bundle.ok THEN {Threw(bundle.err, sent, st)}
         ELSE
         LET skillName == bundle.val.skillName
             files == bundle.val.files
             written(k) == [st EXCEPT ![skillName] =
                              Dir(writeGitHubSkillBundleEarlier(EmptyDir, target, files, k))]
         IN IF skillName \in listUserSkillNames(st)
            THEN {Threw(Err(E_EXISTS, skillName), sent, st)}
            ELSE {Threw(Err(E_WRITE, ""), sent, written(k)) : k \in 0..Len(files)}
                 \cup
                 {[ok |-> TRUE, skillName |-> skillName, fileCount |-> Len(files),
                   err |-> NoErr, requests |-> sent,
                   store |-> [st EXCEPT ![skillName] =
                     Dir(WriteFile(writeGitHubSkillBundleEarlier(EmptyDir, target,
                                                                 files, Len(files)),
                                   SOURCE_METADATA_FILENAME,
                                   JsonContent(SourceMetadataEarlier(target, files))))]]})

\* ------------------------------------------------------------ remote calls
\* The remote calls of one operation, one at a time: fetchWithTimeout arms
\* a timer and calls fetch; the response, a rejection or the timer ends the
\* fetch; the body is read after fetchWithTimeout has returned.  The
\* operation then goes on with the answers, as in the actions above.
SkillsUrl == TreeUrl(<<"skills">>)
SkillsTarget == [owner |-> OWNER, repo |-> REPO, ref |-> DEFAULT_BRANCH,
                 path |-> <<"skills">>, originalUrl |-> SkillsUrl]

\* the requests the operation of task t sends when every one is answered
PlannedRequests(t) ==
  IF t.kind = "check" THEN fetchGitHubSkillSnapshotRequests(remote, t.target)
  ELSE IF t.kind = "discover"
  THEN LET children == EntryPaths(remote, t.target.path, "dir")
       IN <<Req("directory", t.target.path)>> \o
          ConcatAll([c \in 1..Len(children) |->
                       discoverGitHubSkillDirectoryRequests(remote, children[c])])
  ELSE fetchGitHubSkillBundleRequests(remote, t.target)

Answered(i) == tasks[i].call.phase = "answered"

CallStep(i, t) ==
  /\ SetTask(i, t)
  /\ ret' = NoRet
  /\ UNCHANGED <<remote, store, origin, mode, fresh, checkLog, dIn, dOut, page>>

\* fetchWithTimeout is called: the timer is armed and fetch is in flight
fetchWithTimeout(i) ==
  /\ tasks[i].pc = "fetch"
  /\ tasks[i].call.phase = "none"
  /\ tasks[i].call.k < Len(PlannedRequests(tasks[i]))
  /\ CallStep(i, [tasks[i] EXCEPT !.call = [phase |-> "pending", k |-> @.k + 1]])

\* fetch resolves with a response: fetchWithTimeout returns it and its
\* finally block clears the timer
FetchResolves(i) ==
  /\ tasks[i].call.phase = "pending"
  /\ CallStep(i, [tasks[i] EXCEPT !.call.phase = "headers"])

\* fetch rejects: fetchWithTimeout rethrows the error
FetchRejects(i) ==
  /\ tasks[i].call.phase = "pending"
  /\ CallStep(i, [tasks[i] EXCEPT !.call.phase = "none", !.pc = "err",
                                  !.err = Err(E_NETWORK, "network")])

\* the timer fires: controller.abort(), fetch rejects with an AbortError
\* and fetchWithTimeout throws the timeout error
AbortOnTimeout(i) ==
  /\ tasks[i].call.phase = "pending"
  /\ CallStep(i, [tasks[i] EXCEPT !.call.phase = "none", !.pc = "err",
                                  !.err = Err(E_TIMEOUT, "15s")])

\* await response.json() resolves: the body has arrived
ReadBody(i) ==
  /\ tasks[i].call.phase = "headers"
  /\ CallStep(i, [tasks[i] EXCEPT !.call.phase =
                     IF tasks[i].call.k < Len(PlannedRequests(tasks[i]))
                     THEN "none" ELSE "answered"])

\* checkGitHubSkillUpdate or discoverGitHubSkillInstallTarget is called and
\* is about to make its first remote call
StartCalls(kind, url, target, skill) ==
  /\ mode = "idle"
  /\ tasks = <<>>
  /\ tasks' = <<NewTask(kind, "fetch", url, target, skill)>>
  /\ ret' = NoRet
  /\ UNCHANGED <<remote, store, origin, mode, fresh, checkLog, dIn, dOut, page>>

\* a check or a discovery whose remote call threw, throws
CallFailed ==
  /\ ret = NoRet
  /\ tasks # <<>>
  /\ tasks[1].kind \in {"check", "discover"}
  /\ tasks[1].pc = "err"
  /\ ret' = [op |-> tasks[1].kind, ok |-> FALSE, err |-> tasks[1].err,
             url |-> tasks[1].url, requests |-> <<>>]
  /\ UNCHANGED <<remote, store, origin, mode, tasks, fresh, checkLog, dIn, dOut, page>>

\* the calls of the one check or discovery are answered: it goes on
CallsAnswered(kind) ==
  /\ ret = NoRet
  /\ tasks # <<>>
  /\ tasks[1].kind = kind
  /\ Answered(1)

InitTimeout ==
  /\ InitCommon
  /\ dIn = NoDiffIn
  /\ remote \in {Rev1, Rev2}
  /\ \/ /\ store = StoreWith({})
        /\ origin = OriginWith({})
     \/ /\ store = [StoreWith({}) EXCEPT !["foo"] =
                      Dir(WriteFile(InstalledFiles(Rev1, FooTarget), SOURCE_METADATA_FILENAME,
                                    JsonContent(InstalledMetadata(Rev1, FooTarget))))]
        /\ origin = [OriginWith({}) EXCEPT !["foo"] = "github"]

Tracked(n) == readGitHubSkillSourceMetadata(store, n) # NoMeta

\* the steps a user or the network takes
NextTimeoutOutside ==
  \/ (ret = NoRet /\ tasks = <<>> /\ StartInstall(TreeUrl(FooDir)))
  \/ (ret = NoRet /\ tasks = <<>> /\ StartBatch(BatchSkills(BatchSize)))
  \/ (ret = NoRet /\ tasks = <<>> /\ Tracked("foo") /\ StartForceUpdate("foo"))
  \/ (ret = NoRet /\ Tracked("foo") /\
        StartCalls("check", TreeUrl(FooDir), FooTarget, "foo"))
  \/ (ret = NoRet /\ StartCalls("discover", SkillsUrl, SkillsTarget, Null))
  \/ \E i \in DOMAIN tasks : FetchResolves(i)
  \/ \E i \in DOMAIN tasks : FetchRejects(i)
  \/ \E i \in DOMAIN tasks : ReadBody(i)

\* the steps the program takes by itself
NextTimeoutInside ==
  \/ \E i \in DOMAIN tasks : ParseUrl(i)
  \/ \E i \in DOMAIN tasks : fetchWithTimeout(i)
  \/ \E i \in DOMAIN tasks : AbortOnTimeout(i)
  \/ \E i \in DOMAIN tasks : (Answered(i) /\ FetchBundle(i))
  \/ \E i \in DOMAIN tasks : (Answered(i) /\ ForceFetch(i))
  \/ (CallsAnswered("check") /\ checkGitHubSkillUpdate("foo"))
  \/ (CallsAnswered("discover") /\ discoverGitHubSkillInstallTarget(SkillsUrl))
  \/ CallFailed
  \/ \E i \in DOMAIN tasks : CheckExisting(i)
  \/ \E i \in DOMAIN tasks : ForceDelete(i)
  \/ \E i \in DOMAIN tasks : MakeDir(i)
  \/ \E i \in DOMAIN tasks : WriteBundleFile(i)
  \/ \E i \in DOMAIN tasks : WriteSidecar(i)
  \/ FinishInstall
  \/ FinishBatch
  \/ FinishForceUpdate

NextTimeout == NextTimeoutOutside \/ NextTimeoutInside

\* the event loop runs every continuation that is ready and fires every
\* timer that is armed; nothing makes the network answer
SpecTimeout == InitTimeout /\ [][NextTimeout]_vars /\ WF_vars(NextTimeoutInside)

InitDiff ==
  /\ InitCommon
  /\ remote = Rev1
  /\ store = StoreWith({})
  /\ origin = OriginWith({})
  /\ dIn \in [stored : Listings(FooDir), remote : Listings(FooDir)]

SpecDiff == InitDiff /\ [][ApplyDiff]_vars

\* ================================================================= claims
Installed(r) == r.status = "installed"
Skipped(r) == r.status = "skipped"
Failed(r) == r.status = "failed"
Count(results, P(_)) == Cardinality({i \in DOMAIN results : P(results[i])})

\* the units of the batch that existed locally before the batch started
PreExisting == {i \in 1..BatchSize : origin[UnitNames[i]] = "manual"}

\* C1: installSelectedGitHubSkills never throws and returns one result per
\* input unit, in input order: installed exactly for the units that are now
\* tracked in the store, skipped exactly for the units that were fetched but
\* already existed locally, failed (message retained, fileCount 0) for every
\* other failure; 5 units with 1 existing locally and 1 network failure on
\* another unit give 3 installed, 1 skipped, 1 failed.
C1_BatchResults ==
  ret.op = "batch" =>
    /\ ret.ok
    /\ Len(ret.results) = BatchSize
    /\ \A i \in 1..BatchSize :
         LET r == ret.results[i]
             t == ret.tasks[i]
         IN /\ r.skillName = UnitNames[i]
            /\ Installed(r) \/ Skipped(r) \/ Failed(r)
            /\ Installed(r) <=>
                 readGitHubSkillSourceMetadata(store, UnitNames[i]) # NoMeta
            /\ Installed(r) => r.fileCount = Cardinality(FilesBelow(remote, t.target.path))
            /\ Skipped(r) <=> (i \in PreExisting /\ t.err.prefix # E_NETWORK)
            /\ Skipped(r) => r.fileCount = 0 /\ r.message.prefix = E_EXISTS
            /\ Failed(r) => /\ r.fileCount = 0
                            /\ r.message = t.err
                            /\ r.message.prefix \in {E_NETWORK, E_WRITE}
    /\ ( /\ BatchSize = ScenarioSize
         /\ Cardinality(PreExisting) = 1
         /\ Count(ret.tasks, LAMBDA t : t.err.prefix = E_NETWORK) = 1
         /\ \A i \in PreExisting : ret.tasks[i].err.prefix # E_NETWORK
         /\ Count(ret.tasks, LAMBDA t : t.err.prefix = E_WRITE) = 0 )
       => /\ Count(ret.results, Installed) = 3
          /\ Count(ret.results, Skipped) = 1
          /\ Count(ret.results, Failed) = 1

C1_Witness ==
  /\ ret.op = "batch"
  /\ Len(ret.results) = ScenarioSize
  /\ Count(ret.results, Installed) = 3
  /\ Count(ret.results, Skipped) = 1
  /\ Count(ret.results, LAMBDA r : Failed(r) /\ r.message.prefix = E_NETWORK) = 1

\* the local directory of unit n holds every file of the remote directory
\* dir with the remote bytes, and a sidecar that lists exactly these files
HoldsBundle(n, dir) ==
  LET metadata == readGitHubSkillSourceMetadata(store, n)
      expected == FilesBelow(remote, dir)
  IN /\ store[n].exists
     /\ \A p \in expected :
          /\ toRelativeSkillPath(dir, p) \in DOMAIN store[n].files
          /\ store[n].files[toRelativeSkillPath(dir, p)] = BytesContent(remote[p])
     /\ metadata # NoMeta
     /\ metadata.path = dir
     /\ Range(metadata.files) =
          {[path |-> toRelativeSkillPath(dir, p), sha |-> computeGitBlobSha(remote[p])] :
             p \in expected}

DeclaredName(t) ==
  LET md == {i \in DOMAIN t.files : t.files[i].path = t.target.path \o <<SKILL_MD>>}
  IN IF md = {} THEN NoName
     ELSE parseSkillFrontmatter(t.files[CHOOSE i \in md : TRUE].bytes)

LastSegment(path) == IF path = <<>> THEN NoName ELSE path[Len(path)]

Succeeded(t) == t.pc = "ok"

\* C3 as stated: after every successful install or force update the local
\* directory name equals the name declared in the remote SKILL.md and the
\* last segment of the recorded source path, also for an empty path.
C3_NameEqualsLastSegment ==
  \A i \in DOMAIN tasks :
    Succeeded(tasks[i]) =>
      LET n == tasks[i].skillName
          metadata == readGitHubSkillSourceMetadata(store, n)
      IN /\ metadata # NoMeta
         /\ n = DeclaredName(tasks[i])
         /\ n = LastSegment(metadata.path)

NameMatchesSource ==
  \A i \in DOMAIN tasks :
    Succeeded(tasks[i]) =>
      LET n == tasks[i].skillName
          metadata == readGitHubSkillSourceMetadata(store, n)
      IN /\ metadata # NoMeta
         /\ metadata.path = tasks[i].target.path
         /\ n = DeclaredName(tasks[i])
         /\ metadata.path # <<>> => n = LastSegment(metadata.path)

\* a task that has not got past its fetch leaves the store as it is
FetchWritesNothing ==
  \A i \in DOMAIN tasks :
    (tasks[i].pc \in {"parse", "fetch"} /\ i \in DOMAIN tasks') => store' = store

\* C3 amended: after every successful install or force update the local
\* directory name equals the name declared in the remote SKILL.md and, when
\* the recorded source path is not empty, its last segment; a fetch whose
\* names differ fails before anything is written locally.
C3_NameEqualsLastSegmentOfNonEmptyPath ==
  [](NameMatchesSource) /\ [][FetchWritesNothing]_vars

C3_Witness ==
  \E i \in DOMAIN tasks :
    /\ Succeeded(tasks[i])
    /\ tasks[i].kind = "force"
    /\ tasks[i].target.path # <<>>
    /\ tasks[i].skillName = LastSegment(tasks[i].target.path)

\* the directory dir holds a SKILL.md that declares a valid name other than
\* the name of dir
Mismatching(repo, dir) ==
  /\ dir # <<>>
  /\ dir \o <<SKILL_MD>> \in DOMAIN repo
  /\ parseSkillFrontmatter(repo[dir \o <<SKILL_MD>>]) \in ValidSkillNames
  /\ parseSkillFrontmatter(repo[dir \o <<SKILL_MD>>]) # LastSegment(dir)

\* dir holds a SKILL.md that declares dir's own name
Matching(repo, dir) ==
  /\ dir \o <<SKILL_MD>> \in DOMAIN repo
  /\ parseSkillFrontmatter(repo[dir \o <<SKILL_MD>>]) = LastSegment(dir)

ChildDirs(repo, dir) ==
  {e.path : e \in {c \in fetchGitHubDirectory(repo, dir) : c.type = "dir"}}

\* the fetch of an install of a mismatching directory ends in the
\* name-mismatch error (or in the failure of a request)
MismatchFailsInstall ==
  \A i \in DOMAIN tasks :
    ( /\ i \in DOMAIN tasks'
      /\ tasks[i].kind = "install"
      /\ tasks[i].pc = "fetch"
      /\ tasks'[i].pc # "fetch"
      /\ Mismatching(remote, tasks[i].target.path) )
    => /\ tasks'[i].pc = "err"
       /\ tasks'[i].err \in {Err(E_NAME_MISMATCH, ""), Err(E_NETWORK, "network")}
       /\ store' = store

HasWarning(warnings, dir, prefix) ==
  \E k \in DOMAIN warnings :
    warnings[k].name = LastSegment(dir) /\ warnings[k].err.prefix = prefix

\* what discovery of a collection reports about mismatching children and
\* their siblings
MismatchIsWarning ==
  ret.op = "discover" =>
    LET target == parseGitHubSkillUrl(ret.url, DEFAULT_BRANCH)
        children == IF target.ok THEN ChildDirs(remote, target.val.path) ELSE {}
    IN /\ (ret.ok /\ ret.kind = "collection") =>
            \A d \in children :
              /\ Mismatching(remote, d) =>
                   /\ \A k \in DOMAIN ret.skills : ret.skills[k].path # d
                   /\ \/ HasWarning(ret.warnings, d, E_NAME_MISMATCH)
                      \/ HasWarning(ret.warnings, d, E_NETWORK)
              /\ Matching(remote, d) =>
                   \/ \E k \in DOMAIN ret.skills :
                        /\ ret.skills[k].path = d
                        /\ ret.skills[k].skillName = LastSegment(d)
                   \/ HasWarning(ret.warnings, d, E_NETWORK)
       /\ (~ret.ok /\ ret.err.prefix = E_NO_SKILLS) =>
            \A d \in children :
              Matching(remote, d) => HasWarning(ret.warnings, d, E_NETWORK)

\* C4: a directory foo whose SKILL.md declares bar fails a single install
\* with the name-mismatch error; collection discovery of its parent leaves
\* it out of the skills, records a warning for it and still returns every
\* sibling that was discovered successfully.
C4_NameMismatch ==
  [](MismatchIsWarning) /\ [][MismatchFailsInstall]_vars

C4_Witness ==
  /\ ret.op = "discover"
  /\ ret.ok
  /\ ret.kind = "collection"
  /\ \E k \in DOMAIN ret.warnings :
       /\ ret.warnings[k].name = "bar"
       /\ ret.warnings[k].err.prefix = E_NAME_MISMATCH
  /\ \E k \in DOMAIN ret.skills : ret.skills[k].skillName = "foo"

LocalPaths(n) == DOMAIN store[n].files \ {SOURCE_METADATA_FILENAME}

MetadataPaths(n) ==
  {f.path : f \in Range(readGitHubSkillSourceMetadata(store, n).files)}

\* C5: after a successful install the paths of the metadata read back are
\* the paths of the local files of the unit, the sidecar excluded.
C5_RoundTrip ==
  \A i \in DOMAIN tasks :
    (Succeeded(tasks[i]) /\ tasks[i].kind = "install") =>
      /\ readGitHubSkillSourceMetadata(store, tasks[i].skillName) # NoMeta
      /\ MetadataPaths(tasks[i].skillName) = LocalPaths(tasks[i].skillName)

\* C6: no fetched content file is written at the reserved sidecar path and
\* no persisted file list contains that path.
C6_ReservedSidecarName ==
  \A n \in AllNames :
    /\ SOURCE_METADATA_FILENAME \in DOMAIN store[n].files
         => store[n].files[SOURCE_METADATA_FILENAME].kind = "json"
    /\ readGitHubSkillSourceMetadata(store, n) # NoMeta
         => SOURCE_METADATA_FILENAME \notin MetadataPaths(n)

ContentWriteFailed(t) ==
  t.pc = "err" /\ t.err.prefix = E_WRITE /\ t.idx <= Len(t.files)

\* C7: in install and force update the sidecar is written only after every
\* content file: while content writes are pending or after one has failed
\* the unit has no sidecar, and once the sidecar is written every file it
\* lists exists locally.
C7_SidecarAfterContent ==
  \A i \in DOMAIN tasks :
    LET t == tasks[i]
        metadata == readGitHubSkillSourceMetadata(store, t.skillName)
    IN /\ (t.pc \in {"write", "meta"} \/ ContentWriteFailed(t)) => metadata = NoMeta
       /\ Succeeded(t) =>
            /\ metadata # NoMeta
            /\ Len(metadata.files) = Len(t.files)
            /\ \A f \in Range(metadata.files) : f.path \in DOMAIN store[t.skillName].files

C7_Witness ==
  \E i \in DOMAIN tasks :
    /\ tasks[i].kind = "force"
    /\ ContentWriteFailed(tasks[i])
    /\ tasks[i].idx = 2
    /\ store[tasks[i].skillName].exists

\* C8: a unit that exists and was last created manually has no sidecar, and
\* a deleted unit leaves nothing behind, its sidecar included.
C8_ManualUnitsHaveNoSidecar ==
  /\ \A n \in AllNames :
       /\ origin[n] = "manual" =>
            /\ store[n].exists
            /\ SOURCE_METADATA_FILENAME \notin DOMAIN store[n].files
            /\ readGitHubSkillSourceMetadata(store, n) = NoMeta
       /\ origin[n] = "none" => store[n] = NoDir
  /\ (ret.op = "delete" /\ ret.ok) =>
       /\ store[ret.name] = NoDir
       /\ readGitHubSkillSourceMetadata(store, ret.name) = NoMeta

\* an install of a name that exists as a manual unit has just been rejected
C8_Witness ==
  \E i \in DOMAIN tasks :
    /\ tasks[i].pc = "err"
    /\ tasks[i].err.prefix = E_EXISTS
    /\ origin[tasks[i].skillName] = "manual"
    /\ <<"scripts", ".gitkeep">> \in DOMAIN store[tasks[i].skillName].files

StoredSha(path) ==
  LET m == {f \in Range(dIn.stored) : toRelativeSkillPath(FooDir, f.path) = path}
  IN (CHOOSE f \in m : TRUE).sha
RemoteSha(path) ==
  LET m == {f \in Range(dIn.remote) : toRelativeSkillPath(FooDir, f.path) = path}
  IN (CHOOSE f \in m : TRUE).sha
StoredPaths == {toRelativeSkillPath(FooDir, f.path) : f \in Range(dIn.stored)}
RemotePaths == {toRelativeSkillPath(FooDir, f.path) : f \in Range(dIn.remote)}

NoDuplicates(seq) == Cardinality(Range(seq)) = Len(seq)

\* C9: the diff of a stored file list against a remote listing is the
\* reference diff: added are the remote paths not stored, modified the
\* paths in both with different hashes, removed the stored paths not
\* remote, nothing else, and updateAvailable iff one list is non-empty;
\* stored {a: h1, b: h2} against remote {a: h1, c: h3} gives added [c],
\* modified [], removed [b].
C9_DiffIsReferenceDiff ==
  dOut # NoRet =>
    /\ Range(dOut.added) = RemotePaths \ StoredPaths
    /\ Range(dOut.modified) =
         {p \in RemotePaths \cap StoredPaths : StoredSha(p) # RemoteSha(p)}
    /\ Range(dOut.removed) = StoredPaths \ RemotePaths
    /\ NoDuplicates(dOut.added) /\ NoDuplicates(dOut.modified) /\ NoDuplicates(dOut.removed)
    /\ dOut.updateAvailable <=>
         (dOut.added # <<>> \/ dOut.modified # <<>> \/ dOut.removed # <<>>)
    /\ ( /\ StoredPaths = {<<"SKILL.md">>, <<"a.md">>}
         /\ RemotePaths = {<<"SKILL.md">>, <<"refs", "b.md">>}
         /\ StoredSha(<<"SKILL.md">>) = RemoteSha(<<"SKILL.md">>) )
       => /\ dOut.added = << <<"refs", "b.md">> >>
          /\ dOut.modified = <<>>
          /\ dOut.removed = << <<"a.md">> >>

C9_Witness ==
  /\ dOut # NoRet
  /\ StoredPaths = {<<"SKILL.md">>, <<"a.md">>}
  /\ RemotePaths = {<<"SKILL.md">>, <<"refs", "b.md">>}
  /\ StoredSha(<<"SKILL.md">>) = Hash(1) /\ RemoteSha(<<"SKILL.md">>) = Hash(1)
  /\ StoredSha(<<"a.md">>) = Hash(2) /\ RemoteSha(<<"refs", "b.md">>) = Hash(3)
  /\ dOut.added = << <<"refs", "b.md">> >>
  /\ dOut.removed = << <<"a.md">> >>

\* C10: while the remote has not changed since a unit was installed or
\* force-updated, every update check of the unit reports no update, with
\* added, modified and removed empty, and successive results are identical.
C10_CheckIdempotent ==
  \A n \in AllNames :
    fresh[n] =>
      \A k \in DOMAIN checkLog[n] :
        /\ ~checkLog[n][k].updateAvailable
        /\ checkLog[n][k].added = <<>>
        /\ checkLog[n][k].modified = <<>>
        /\ checkLog[n][k].removed = <<>>
        /\ checkLog[n][k] = checkLog[n][1]

C10_Witness ==
  \E n \in AllNames :
    /\ fresh[n]
    /\ Len(checkLog[n]) >= 2
    /\ checkLog[n][1].remoteFileCount = 3
    /\ ret.op = "check" /\ ret.ok

\* the git blob hash of what the local file at path holds
LocalSha(n, path) ==
  LET c == store[n].files[path]
  IN IF c.kind = "bytes" THEN computeGitBlobSha(c.b)
     ELSE <<"sha1", "blob", "json", 0>>

TrackedPaths(n) == {f.path : f \in Range(readGitHubSkillSourceMetadata(store, n).files)}
TrackedSha(n, path) ==
  (CHOOSE f \in Range(readGitHubSkillSourceMetadata(store, n).files) : f.path = path).sha

\* C11: the preview classifies local drift against the stored metadata:
\* missing are the stored paths with no local file, modified the stored
\* paths whose local file rehashes to another hash, untracked the local
\* files other than the sidecar that are not stored, and nothing else is
\* reported.
C11_PreviewClassifiesDrift ==
  (ret.op = "preview" /\ ret.ok) =>
    LET n == ret.name
        local == DOMAIN store[n].files
    IN /\ Range(ret.localChanges.missing) = TrackedPaths(n) \ local
       /\ Range(ret.localChanges.modified) =
            {p \in TrackedPaths(n) \cap local : LocalSha(n, p) # TrackedSha(n, p)}
       /\ Range(ret.localChanges.untracked) =
            (local \ {SOURCE_METADATA_FILENAME}) \ TrackedPaths(n)
       /\ NoDuplicates(ret.localChanges.missing)
       /\ NoDuplicates(ret.localChanges.modified)
       /\ NoDuplicates(ret.localChanges.untracked)
       /\ ret.hasLocalChanges <=>
            \/ ret.localChanges.missing # <<>>
            \/ ret.localChanges.modified # <<>>
            \/ ret.localChanges.untracked # <<>>

\* the relative path of the k-th file a task fetched
RelativePath(t, k) == toRelativeSkillPath(t.target.path, t.files[k].path)

\* C12: after a successful force update the unit holds exactly the files of
\* the fetched bundle, each with the fetched bytes, plus the sidecar, and
\* the sidecar lists the fetched paths and hashes and nothing of the
\* previous metadata.
C12_ForceUpdateReplacesNamespace ==
  \A i \in DOMAIN tasks :
    (Succeeded(tasks[i]) /\ tasks[i].kind = "force") =>
      LET t == tasks[i]
          dir == store[t.skillName].files
      IN /\ DOMAIN dir = {RelativePath(t, k) : k \in DOMAIN t.files}
                            \cup {SOURCE_METADATA_FILENAME}
         /\ \A k \in DOMAIN t.files :
              dir[RelativePath(t, k)] = BytesContent(t.files[k].bytes)
         /\ dir[SOURCE_METADATA_FILENAME] =
              JsonContent(SourceMetadata(t.target, t.files))

\* a force update that has deleted the unit and has not finished the rewrite:
\* it is about to create the directory, is writing, or failed in a write
RewriteUnfinished(t) ==
  /\ t.kind = "force"
  /\ \/ t.pc \in {"mkdir", "write", "meta"}
     \/ t.pc = "err" /\ t.err.prefix \in {E_WRITE, E_NO_ENTRY}

SidecarAbsent(n) ==
  \/ ~store[n].exists
  \/ SOURCE_METADATA_FILENAME \notin DOMAIN store[n].files

\* the sidecar of unit n is there and is not a version 1 github record with
\* string fields and a files array
SidecarMalformed(n) ==
  /\ ~SidecarAbsent(n)
  /\ LET c == store[n].files[SOURCE_METADATA_FILENAME]
     IN \/ c.kind = "bytes"
        \/ /\ c.kind = "json"
           /\ \/ c.meta.version # 1
              \/ c.meta.type # "github"
              \/ NonString \in {c.meta.owner, c.meta.repo, c.meta.ref}
              \/ c.meta.path = NonStringPath
              \/ c.meta.originalUrl = NonStringUrl
              \/ c.meta.files = NonArray

NotTrackedFailure(r, n) ==
  /\ r.op \in {"check", "preview", "force"}
  /\ r.name = n
  /\ ~r.ok
  /\ r.err = Err(E_NOT_TRACKED, n)
  /\ r.requests = <<>>

\* C14: when the sidecar of a unit is absent or malformed, an update check, a
\* preview and a force update of the unit each return the not-tracked
\* error, with no remote request issued, no task started and the local
\* store unchanged.
C14_UntrackedUnitFailsNotTracked ==
  [][ \A n \in Names :
        (ret = NoRet /\ mode = "idle" /\ (SidecarAbsent(n) \/ SidecarMalformed(n)))
        => /\ NotTrackedFailure(ret', n)
           /\ store' = store
           /\ origin' = origin
           /\ mode' = "idle"
           /\ tasks' = <<>> ]_vars

\* a force update was refused on a unit whose sidecar has no files array
C14_Witness ==
  /\ ret # NoRet
  /\ NotTrackedFailure(ret, "foo")
  /\ ret.op = "force"
  /\ SidecarMalformed("foo")
  /\ store["foo"].files[SOURCE_METADATA_FILENAME].kind = "json"
  /\ store["foo"].files[SOURCE_METADATA_FILENAME].meta.files = NonArray

C14_WitnessCheck ==
  /\ ret # NoRet /\ NotTrackedFailure(ret, "foo") /\ ret.op = "check" /\ SidecarAbsent("foo")
C14_WitnessPreview ==
  /\ ret # NoRet /\ NotTrackedFailure(ret, "foo") /\ ret.op = "preview" /\ SidecarMalformed("foo")

\* the SKILL.md of the target declares a valid name that is not name n
RemoteDeclaresOther(repo, target, n) ==
  /\ target.path \o <<SKILL_MD>> \in DOMAIN repo
  /\ LET declared == parseSkillFrontmatter(repo[target.path \o <<SKILL_MD>>])
     IN /\ declared # NoName
        /\ validateSkillName(declared) = Null
        /\ declared # n

\* the failure is the name-changed error, or the request did not get through
NameChangedOrNetwork(e) == e.prefix \in {E_NAME_CHANGED, E_NETWORK}

\* C15: when the remote SKILL.md of a tracked unit declares another name than
\* the unit's local name, an update check and a force update of the unit
\* fail with the name-changed error, and the force update has neither
\* deleted nor written anything.
C15_RemoteRenameFailsNameChanged ==
  /\ \A n \in Names :
       LET metadata == readGitHubSkillSourceMetadata(store, n)
       IN (/\ ret # NoRet
           /\ ret.op = "check"
           /\ ret.name = n
           /\ metadata # NoMeta
           /\ RemoteDeclaresOther(remote, TargetOf(metadata), n))
          => (~ret.ok /\ NameChangedOrNetwork(ret.err))
  /\ \A i \in DOMAIN tasks :
       (/\ tasks[i].kind = "force"
        /\ tasks[i].pc # "fetch"
        /\ RemoteDeclaresOther(remote, tasks[i].target, tasks[i].skill))
       => /\ tasks[i].pc = "err"
          /\ NameChangedOrNetwork(tasks[i].err)
          /\ readGitHubSkillSourceMetadata(store, tasks[i].skill) = tasks[i].meta

\* the part of C15 that the code keeps: a remote rename makes both operations
\* fail, and the force update fails before it deletes or writes
C15_RemoteRenameFails ==
  /\ \A n \in Names :
       LET metadata == readGitHubSkillSourceMetadata(store, n)
       IN (/\ ret # NoRet
           /\ ret.op = "check"
           /\ ret.name = n
           /\ metadata # NoMeta
           /\ RemoteDeclaresOther(remote, TargetOf(metadata), n))
          => ~ret.ok
  /\ \A i \in DOMAIN tasks :
       (/\ tasks[i].kind = "force"
        /\ tasks[i].pc # "fetch"
        /\ RemoteDeclaresOther(remote, tasks[i].target, tasks[i].skill))
       => /\ tasks[i].pc = "err"
          /\ readGitHubSkillSourceMetadata(store, tasks[i].skill) = tasks[i].meta

\* a unit installed from the repository root gets the name-changed error
C15_RootUnitNameChanged ==
  /\ ret # NoRet
  /\ ret.op \in {"check", "force"}
  /\ ~ret.ok
  /\ ret.err = Err(E_NAME_CHANGED, "bar")

\* the update check of unit n that has just returned
CheckReturned(n) == ret # NoRet /\ ret.op = "check" /\ ret.name = n

\* the directories below dir
DirsBelow(repo, dir) ==
  UNION { {SubSeq(p, 1, j) : j \in (Len(dir) + 1)..(Len(p) - 1)} : p \in FilesBelow(repo, dir) }

FileRequests(reqs) == {k \in DOMAIN reqs : reqs[k].kind = "file"}

\* C16 as stated: an update check sends directory-listing requests only and
\* downloads no file contents.
C16_CheckSendsListingsOnly ==
  \A n \in Names :
    CheckReturned(n) => \A k \in DOMAIN ret.requests : ret.requests[k].kind = "directory"

\* C16: an update check sends directory-listing requests and at most one
\* request for file contents, that of the SKILL.md of the tracked directory;
\* the contents of no other file are downloaded, and a successful check has
\* listed the tracked directory and every directory below it.
C16_CheckDownloadsManifestOnly ==
  \A n \in Names :
    CheckReturned(n) =>
      LET metadata == readGitHubSkillSourceMetadata(store, n)
          reqs == ret.requests
      IN /\ \A k \in DOMAIN reqs :
              \/ reqs[k].kind = "directory"
              \/ /\ metadata # NoMeta
                 /\ reqs[k] = Req("file", metadata.path \o <<SKILL_MD>>)
         /\ Cardinality(FileRequests(reqs)) <= 1
         /\ ret.ok =>
              /\ Cardinality(FileRequests(reqs)) = 1
              /\ {reqs[k].path : k \in DOMAIN reqs \ FileRequests(reqs)}
                   = {metadata.path} \cup DirsBelow(remote, metadata.path)

\* a check succeeded on a remote directory of three files in two directories
C16_Witness ==
  /\ CheckReturned("foo")
  /\ ret.ok
  /\ Cardinality(FileRequests(ret.requests)) = 1
  /\ Len(ret.requests) = 4
  /\ Cardinality(FilesBelow(remote, readGitHubSkillSourceMetadata(store, "foo").path)) = 3

\* a resolution, by discovery or by a single install, has returned
Resolved == ret # NoRet /\ ret.op \in {"discover", "install"}

\* owner/repo or owner/repo/tree/<ref>/<path...>
AcceptedShape(u) ==
  /\ u.wellFormed
  /\ \/ Len(u.parts) = 2
     \/ Len(u.parts) >= 4 /\ u.parts[3] = "tree"

ValidationErrors == {E_BAD_URL, E_BAD_HOST, E_BAD_SHAPE}

\* the resolution failed with a validation error and sent no request
RejectedUnsent == ~ret.ok /\ ret.err.prefix \in ValidationErrors /\ ret.requests = <<>>

\* the resolver let the URL through: what follows is success or a failure
\* that is no validation error
LetThrough == ret.ok \/ ret.err.prefix \notin ValidationErrors

\* C17 as stated: the resolver lets through exactly the two shapes on host
\* github.com, and rejects everything else with a validation error before
\* any request.
C17_AcceptsTwoShapesOnGitHubOnly ==
  Resolved =>
    IF AcceptedShape(ret.url) /\ ret.url.host = "github.com"
    THEN LetThrough ELSE RejectedUnsent

\* C17: the resolver lets through exactly the two shapes owner/repo and
\* owner/repo/tree/<ref>/<path...> on the hosts github.com and
\* www.github.com; every other shape, every other host and every malformed
\* URL fails with a validation error before any remote request is sent.
C17_AcceptsTwoShapesOnGitHubHosts ==
  Resolved =>
    IF AcceptedShape(ret.url) /\ ret.url.host \in {"github.com", "www.github.com"}
    THEN LetThrough ELSE RejectedUnsent

\* an install of a tree URL without ref was rejected with nothing sent
C17_Witness ==
  /\ Resolved
  /\ ret.op = "install"
  /\ ret.url = Url(<<OWNER, REPO, "tree">>)
  /\ RejectedUnsent
  /\ ret.err.prefix = E_BAD_SHAPE

\* a URL on the www host was resolved
C17_WwwHostResolved ==
  /\ Resolved
  /\ ret.url.host = "www.github.com"
  /\ ret.ok

\* the URL of the resolution is one the resolver lets through
AcceptedUrl(u) == AcceptedShape(u) /\ u.host \in {"github.com", "www.github.com"}

\* the positions of the default-branch lookups in a request log
Lookups(reqs) == {k \in DOMAIN reqs : reqs[k].kind = "repository"}

\* C18: the resolution of a valid bare repository URL makes exactly one
\* default-branch lookup, which is its first request, so that the listing
\* of the root directory is requested after the lookup has returned; the
\* resolution of a URL with an explicit ref makes no lookup.
C18_OneLookupBeforeRootListing ==
  (Resolved /\ AcceptedUrl(ret.url)) =>
    IF Len(ret.url.parts) = 2
    THEN /\ Lookups(ret.requests) = {1}
         /\ ret.lookup \in {"ok", "failed"}
         /\ ret.lookup = "ok" =>
              /\ Len(ret.requests) >= 2
              /\ ret.requests[2] = Req("directory", <<>>)
    ELSE /\ Lookups(ret.requests) = {}
         /\ ret.lookup = "none"

\* an install from a bare URL succeeded: lookup first, root listing second
C18_Witness ==
  /\ Resolved
  /\ ret.op = "install"
  /\ ret.ok
  /\ Len(ret.url.parts) = 2
  /\ ret.requests[1] = Req("repository", <<>>)
  /\ ret.requests[2] = Req("directory", <<>>)
  /\ Lookups(ret.requests) = {1}

\* the store and the provenance are those of a store nothing was installed in
NothingWritten ==
  /\ \A n \in AllNames : origin[n] # "github"
  /\ store = StoreWith({n \in AllNames : origin[n] = "manual"})

\* C19: when the default-branch lookup of a bare repository URL fails, the
\* resolution fails with the repository-request error: no directory listing
\* is requested (no ref was assumed to list with) and nothing is written to
\* the local store.
C19_FailedLookupIsUpstreamError ==
  (Resolved /\ ret.lookup = "failed") =>
    /\ ~ret.ok
    /\ ret.err.prefix = E_REPO
    /\ ret.requests = <<Req("repository", <<>>)>>
    /\ NothingWritten

\* an install from a bare URL stopped at the failed lookup, over a remote
\* whose root is an installable skill
C19_Witness ==
  /\ Resolved
  /\ ret.op = "install"
  /\ ret.lookup = "failed"
  /\ ~ret.ok
  /\ <<SKILL_MD>> \in DOMAIN remote
  /\ ~store["foo"].exists

\* the directory path a URL names
UrlPath(u) == IF Len(u.parts) <= 4 THEN <<>> ELSE SubSeq(u.parts, 5, Len(u.parts))

\* a discovery has returned for a URL the resolver lets through
Discovered == Resolved /\ ret.op = "discover" /\ AcceptedUrl(ret.url)

\* C20: when the listing of the target directory holds a file SKILL.md, a
\* discovery that gets its answers returns 'single', whatever directories
\* the listing holds, and has requested the listing of no child directory;
\* 'single' is returned only when that file exists, so a directory named
\* SKILL.md does not make the target single.
C20_SingleIffSkillMarkdownFile ==
  Discovered =>
    LET path == UrlPath(ret.url)
        hasFile == path \o <<SKILL_MD>> \in DOMAIN remote
    IN /\ hasFile =>
            /\ \/ ret.ok /\ ret.kind = "single"
               \/ ~ret.ok /\ ret.err.prefix \in {E_NETWORK, E_REPO}
            /\ \A k \in DOMAIN ret.requests :
                 ret.requests[k] \in {Req("repository", <<>>), Req("directory", path)}
       /\ (ret.ok /\ ret.kind = "single") => hasFile

\* 'single' was returned for a directory that has SKILL.md and directories
C20_Witness ==
  /\ Discovered
  /\ ret.ok
  /\ ret.kind = "single"
  /\ DirsBelow(remote, UrlPath(ret.url)) # {}
  /\ \A k \in DOMAIN ret.requests : ret.requests[k].kind \in {"repository", "directory"}

\* a directory that holds a directory named SKILL.md was not taken as single
C20_DirectoryNamedSkillMarkdown ==
  /\ Discovered
  /\ UrlPath(ret.url) \o <<SKILL_MD>> \in DirsBelow(remote, UrlPath(ret.url))
  /\ ~(ret.ok /\ ret.kind = "single")
  /\ Len(ret.requests) > 1

\* the immediate subdirectories of dir
ImmediateSubdirs(repo, dir) == {d \in DirsBelow(repo, dir) : Len(d) = Len(dir) + 1}

\* the discovery scanned the children: it returned a collection or found no
\* installable skill
ScannedChildren ==
  /\ Discovered
  /\ \/ ret.ok /\ ret.kind = "collection"
     \/ ~ret.ok /\ ret.err.prefix = E_NO_SKILLS

\* the positions in a request log of the listings of directory d
ListingsOf(reqs, d) == {k \in DOMAIN reqs : reqs[k] = Req("directory", d)}

\* C21: a discovery that scans the children of the target lists the target
\* once and each immediate subdirectory of it exactly once, and lists no
\* other directory: the number of child listings is the number of
\* immediate subdirectories.
C21_ChildScanListsImmediateSubdirsOnce ==
  ScannedChildren =>
    LET path == UrlPath(ret.url)
        reqs == ret.requests
        children == ImmediateSubdirs(remote, path)
        childListings == {k \in DOMAIN reqs :
                            reqs[k].kind = "directory" /\ reqs[k].path # path}
    IN /\ Cardinality(ListingsOf(reqs, path)) = 1
       /\ \A d \in children : Cardinality(ListingsOf(reqs, d)) = 1
       /\ \A k \in childListings : reqs[k].path \in children
       /\ Cardinality(childListings) = Cardinality(children)

\* a collection was returned for a target with two children, one of which
\* has a directory of its own
C21_Witness ==
  /\ ScannedChildren
  /\ ret.ok
  /\ Cardinality(ImmediateSubdirs(remote, UrlPath(ret.url))) >= 2
  /\ \E d \in ImmediateSubdirs(remote, UrlPath(ret.url)) : DirsBelow(remote, d) # {}

\* the name a file SKILL.md of directory d declares, NoName when d has none
ChildDeclares(repo, d) ==
  IF d \o <<SKILL_MD>> \in DOMAIN repo
  THEN parseSkillFrontmatter(repo[d \o <<SKILL_MD>>]) ELSE NoName

\* child directory d is an installable skill
ChildGood(repo, d) == ChildDeclares(repo, d) = d[Len(d)]

\* child directory d has a SKILL.md whose name is missing, invalid or not
\* the name of d
ChildBad(repo, d) == d \o <<SKILL_MD>> \in DOMAIN repo /\ ~ChildGood(repo, d)

\* the skills a discovery found, none when it threw
FoundSkills == IF ret.ok THEN ret.skills ELSE <<>>

\* C22: once a discovery has asked for the listing of a child directory it
\* ends as a collection or with the no-installable-skills error, never with
\* the error of a child.  A child whose scan fails (request failure, missing,
\* invalid or mismatching name) has one warning and is no skill; a child
\* that is installable is in the collection unless its own requests failed;
\* and the warnings come sorted by child name, in whatever order the child
\* scans completed.
C22_ChildFailureIsWarning ==
  Discovered =>
    LET path == UrlPath(ret.url)
        reqs == ret.requests
        children == ImmediateSubdirs(remote, path)
        warningsOf(d) == {k \in DOMAIN ret.warnings : ret.warnings[k].name = d[Len(d)]}
        skillsOf(d) == {k \in DOMAIN FoundSkills : FoundSkills[k].path = d}
    IN /\ (\E k \in DOMAIN reqs : reqs[k].kind = "directory" /\ reqs[k].path # path)
            => ScannedChildren
       /\ ScannedChildren =>
            /\ \A d \in children :
                 /\ Cardinality(warningsOf(d)) <= 1
                 /\ Cardinality(skillsOf(d)) <= 1
                 /\ warningsOf(d) # {} => skillsOf(d) = {}
                 /\ ChildBad(remote, d) => warningsOf(d) # {}
                 /\ ChildGood(remote, d) =>
                      \/ skillsOf(d) # {}
                      \/ \E k \in warningsOf(d) : ret.warnings[k].err.prefix = E_NETWORK
            /\ \A i, j \in DOMAIN ret.warnings :
                 i < j => NameLess(ret.warnings[i].name, ret.warnings[j].name)

\* a child whose SKILL.md declares an invalid name became a warning
C22_InvalidNameIsWarning ==
  /\ ScannedChildren
  /\ ret.ok
  /\ \E k \in DOMAIN ret.warnings :
       ret.warnings[k] = [name |-> "foo", err |-> Err("Invalid skill name in SKILL.md:", INVALID_NAME)]

\* a collection was returned with one skill although the scans of two other
\* children failed
C22_Witness ==
  /\ ScannedChildren
  /\ ret.ok
  /\ Len(ret.skills) >= 1
  /\ Len(ret.warnings) >= 2
  /\ \E d \in ImmediateSubdirs(remote, UrlPath(ret.url)) :
       /\ ChildGood(remote, d)
       /\ \E k \in DOMAIN ret.warnings : ret.warnings[k].name = d[Len(d)]

\* the discovery got past the lookup and the listing of the target
RootListed == Discovered /\ (ret.ok \/ ret.err.prefix \notin {E_REPO, E_NETWORK})

\* C23: a discovery whose target has no file SKILL.md and none of whose
\* children yields a skill (there is no child, no child is installable, or
\* the scan of every installable child failed) fails with the
\* no-installable-skills error, whether or not warnings were recorded; a
\* returned collection is never empty.
C23_EmptyDiscoveryFails ==
  RootListed =>
    LET path == UrlPath(ret.url)
        children == ImmediateSubdirs(remote, path)
        warned(d) == \E k \in DOMAIN ret.warnings : ret.warnings[k].name = d[Len(d)]
        yielding == {d \in children : ChildGood(remote, d) /\ ~warned(d)}
    IN /\ (ret.ok /\ ret.kind = "collection") => Len(ret.skills) >= 1
       /\ (path \o <<SKILL_MD>> \notin DOMAIN remote /\ yielding = {})
            => (~ret.ok /\ ret.err = Err(E_NO_SKILLS, ""))
       /\ (~ret.ok /\ ret.err.prefix = E_NO_SKILLS)
            => (path \o <<SKILL_MD>> \notin DOMAIN remote /\ yielding = {})

\* the scan of every installable child failed: the discovery threw although
\* it had recorded warnings
C23_Witness ==
  /\ RootListed
  /\ ~ret.ok
  /\ ret.err.prefix = E_NO_SKILLS
  /\ Len(ret.warnings) >= 1
  /\ \E d \in ImmediateSubdirs(remote, UrlPath(ret.url)) : ChildGood(remote, d)

\* a target without subdirectories threw the same error
C23_NoChildren ==
  /\ RootListed
  /\ ~ret.ok
  /\ ret.err.prefix = E_NO_SKILLS
  /\ ImmediateSubdirs(remote, UrlPath(ret.url)) = {}

\* a discovery returned a collection
CollectionReturned == Discovered /\ ret.ok /\ ret.kind = "collection"

\* C24: the skills of a returned collection are in the order of their unit
\* names, and the alreadyInstalled flag of each is true exactly when a
\* directory of its name exists in the local skills namespace.
C24_CollectionSortedAndFlagged ==
  CollectionReturned =>
    /\ \A i, j \in DOMAIN ret.skills :
         i < j => NameLess(ret.skills[i].skillName, ret.skills[j].skillName)
    /\ \A k \in DOMAIN ret.skills :
         ret.skills[k].alreadyInstalled <=> store[ret.skills[k].skillName].exists

\* a collection of three skills of which the first is installed locally
C24_Witness ==
  /\ CollectionReturned
  /\ Len(ret.skills) = 3
  /\ ret.skills[1].alreadyInstalled
  /\ ~ret.skills[2].alreadyInstalled
  /\ store[ret.skills[1].skillName].exists

\* a single install of a URL the resolver lets through has returned, and
\* its default-branch lookup did not fail
InstallReturned ==
  /\ Resolved
  /\ ret.op = "install"
  /\ AcceptedUrl(ret.url)
  /\ ret.lookup # "failed"

\* the directory at path is a unit that can be fetched: it has a file
\* SKILL.md that declares a valid name, the name of the directory if any
Fetchable(repo, path) ==
  /\ path \o <<SKILL_MD>> \in DOMAIN repo
  /\ validateSkillName(ChildDeclares(repo, path)) = Null
  /\ path = <<>> \/ ChildDeclares(repo, path) = path[Len(path)]

FetchErrors ==
  {E_NETWORK, E_NO_MANIFEST, E_NO_FRONTMATTER, E_NAME_MISMATCH,
   "Invalid skill name in SKILL.md:"}

\* C25: a single install whose fetch fails, because the target has no file
\* SKILL.md, its name is missing, invalid or not the name of the directory,
\* or because one of the listing or content requests of the walk failed,
\* fails as a whole and has created no directory and no file.
C25_FetchFailureWritesNothing ==
  InstallReturned =>
    /\ ~Fetchable(remote, UrlPath(ret.url)) =>
         (~ret.ok /\ ret.err.prefix \in FetchErrors)
    /\ (~ret.ok /\ ret.err.prefix \in FetchErrors) => NothingWritten

\* an install failed on a request in the middle of the walk: the listing
\* and SKILL.md had been fetched, and nothing is in the store
C25_Witness ==
  /\ InstallReturned
  /\ ~ret.ok
  /\ ret.err.prefix = E_NETWORK
  /\ Len(ret.requests) >= 4
  /\ Fetchable(remote, UrlPath(ret.url))
  /\ \A n \in AllNames : ~store[n].exists

\* an install failed on a SKILL.md that declares an invalid name
C25_InvalidName ==
  /\ InstallReturned
  /\ ~ret.ok
  /\ ret.err = Err("Invalid skill name in SKILL.md:", INVALID_NAME)

\* the errors of a fault: a request or a local write that failed
Faults == {E_NETWORK, E_REPO, E_WRITE, E_NO_ENTRY}

\* C26: an install of a unit that meets no fault succeeds and leaves the
\* unit with a valid sidecar, also when earlier installs of the unit failed
\* at any step; it is refused as existing only when an earlier install has
\* left the unit installed with a valid sidecar.
C26_FailedInstallCanBeRetried ==
  (ret # NoRet /\ ret.op = "install") =>
    \/ ret.ok /\ readGitHubSkillSourceMetadata(store, ret.skillName) # NoMeta
    \/ ~ret.ok /\ ret.err.prefix \in Faults
    \/ /\ ~ret.ok
       /\ ret.err.prefix = E_EXISTS
       /\ readGitHubSkillSourceMetadata(store, ret.err.arg) # NoMeta

\* the retry of an install that failed while fetching is not refused: an
\* install is refused as existing only when the directory of the unit
\* exists, and a failed fetch creates none (C25)
C26_RefusedOnlyWhenDirectoryExists ==
  (ret # NoRet /\ ret.op = "install" /\ ~ret.ok /\ ret.err.prefix = E_EXISTS)
    => store[ret.err.arg].exists

\* a retry was refused over the directory a failed install had left
C26_RetryRefused ==
  /\ ret # NoRet
  /\ ret.op = "install"
  /\ ~ret.ok
  /\ ret.err = Err(E_EXISTS, "foo")
  /\ readGitHubSkillSourceMetadata(store, "foo") = NoMeta

\* the number of handlers in flight on the selected unit
InFlight ==
  page.save + page.delete + page.check + page.preview
  + (IF page.force = "none" THEN 0 ELSE 1)

\* C27: at most one of save, delete, check update, force-update preview and
\* force update is in flight on the selected unit; in particular nothing
\* else is in flight while a force update is between its delete and its
\* sidecar write.
C27_OneOperationInFlight ==
  /\ InFlight <= 1
  /\ page.force = "rewrite" => InFlight = 1

\* what the flags of the page do exclude: a second save, check, preview or
\* force update while one of the same kind is in flight
C27_FlagsExclude ==
  /\ page.save <= 1 /\ page.check <= 1 /\ page.preview <= 1
  /\ page.saving <=> page.save = 1
  /\ page.checkingUpdate <=> page.check = 1
  /\ page.preparingForceUpdate <=> page.preview = 1
  /\ page.forcingUpdate <=> page.force # "none"

\* a save is in flight while a force update has deleted the directory and
\* not yet written the sidecar
C27_SaveDuringRewrite ==
  /\ page.force = "rewrite"
  /\ page.save = 1
  /\ ~store["foo"].exists

\* the units that exist locally although they were discovered as not
\* installed keep the files they had and get no sidecar
StaleUnitsUntouched ==
  \A n \in AllNames : origin[n] = "manual" => store[n] = ManualDir(n)

\* the batch result of unit i is a name collision
SkippedAsCollision(i) ==
  /\ Skipped(ret.results[i])
  /\ ret.results[i].message = Err(E_EXISTS, UnitNames[i])

\* C28 (as stated): a unit that exists locally when the install runs makes
\* the install a name collision, thrown by a single install and 'skipped' in
\* a batch, and the existing unit is left unchanged.
C28_StaleUnitIsCollision ==
  /\ StaleUnitsUntouched
  /\ ret.op = "batch" => \A i \in PreExisting : SkippedAsCollision(i)
  /\ (ret.op = "install" /\ origin[UnitNames[1]] = "manual") =>
       ~ret.ok /\ ret.err = Err(E_EXISTS, UnitNames[1])

\* C28 (amended): a unit that exists locally when the install has fetched
\* its bundle makes the install a name collision, thrown by a single install
\* and 'skipped' in a batch; an install whose fetch fails reports that
\* failure instead ('failed' in a batch); in both cases the existing unit
\* keeps its files and gets no sidecar.
C28_StaleUnitIsCollisionOnceFetched ==
  /\ StaleUnitsUntouched
  /\ ret.op = "batch" =>
       \A i \in PreExisting :
         IF ret.tasks[i].err.prefix = E_NETWORK
         THEN Failed(ret.results[i]) /\ ret.results[i].message.prefix = E_NETWORK
         ELSE SkippedAsCollision(i)
  /\ (ret.op = "install" /\ origin[UnitNames[1]] = "manual") =>
       /\ ~ret.ok
       /\ ret.err.prefix # E_NETWORK => ret.err = Err(E_EXISTS, UnitNames[1])

\* a batch returned 'skipped' for a unit that existed locally, next to a
\* unit it installed
C28_Witness ==
  /\ ret.op = "batch"
  /\ \E i \in PreExisting : SkippedAsCollision(i) /\ store[UnitNames[i]] = ManualDir(UnitNames[i])
  /\ \E i \in 1..BatchSize : Installed(ret.results[i])

\* a single install of a unit that existed locally threw the collision
C28_SingleRejected ==
  /\ ret.op = "install"
  /\ origin[UnitNames[1]] = "manual"
  /\ ~ret.ok
  /\ ret.err = Err(E_EXISTS, UnitNames[1])
  /\ store[UnitNames[1]] = ManualDir(UnitNames[1])

\* an operation has just returned or thrown
Returned == ret # NoRet

\* a response has arrived whose body has not
BodyAwaited == \E i \in DOMAIN tasks : tasks[i].call.phase = "headers"

\* C29: every remote call carries a timeout whose expiry is a timeout error,
\* so every discover, install, batch install, check and force update that
\* is called eventually returns a result or an error, whichever remote
\* calls respond, fail or never answer.
C29_EveryOperationReturns == (tasks # <<>>) ~> Returned

\* what the timer gives: an operation returns unless it is left reading the
\* body of a response that has arrived
C29_ReturnsUnlessBodyAwaited == (tasks # <<>>) ~> (Returned \/ BodyAwaited)

\* the timeout error comes from a fetch that was pending and from nothing
\* else, and differs from the error of a rejected fetch
C29_TimeoutIsDistinct ==
  [][\A i \in DOMAIN tasks \cap DOMAIN tasks' :
       (tasks'[i].err.prefix = E_TIMEOUT /\ tasks[i].err.prefix # E_TIMEOUT)
         => (tasks[i].call.phase = "pending" /\ tasks'[i].err.prefix # E_NETWORK)]_vars

\* an install stays suspended on the body of a response that has arrived
C29_StalledBody ==
  /\ tasks # <<>>
  /\ tasks[1].kind = "install"
  /\ tasks[1].call.phase = "headers"
  /\ ~ENABLED NextTimeoutInside

\* a discovery returned the timeout error
C29_TimedOut ==
  /\ ret # NoRet
  /\ ret.op = "discover"
  /\ ~ret.ok
  /\ ret.err.prefix = E_TIMEOUT

\* the store before the one install of the behaviour: the manual skills
StoreBefore == StoreWith({n \in AllNames : origin[n] = "manual"})

\* what installSkillFromGitHubUrl has returned or thrown, the requests it
\* has sent and the store it has left
InstallOutcome ==
  [ok |-> ret.ok,
   skillName |-> IF ret.ok THEN ret.skillName ELSE NoName,
   fileCount |-> IF ret.ok THEN ret.fileCount ELSE 0,
   err |-> IF ret.ok THEN NoErr ELSE ret.err,
   requests |-> ret.requests,
   store |-> store]

\* an install of a URL the earlier installer accepted has returned
EarlierUrlInstalled ==
  /\ ret # NoRet
  /\ ret.op = "install"
  /\ parseGitHubSkillUrlEarlier(ret.url).ok

\* C30: for every URL the earlier installer accepted (a tree URL with a
\* non-empty path), every remote tree and every local store,
\* installSkillFromGitHubUrl sends no lookup and returns the result, or
\* fails at the step with the error, and leaves the store, that the earlier
\* installSkillFromGitHubUrl does.
C30_SingleInstallUnchanged ==
  EarlierUrlInstalled =>
    /\ ret.lookup = "none"
    /\ InstallOutcome \in installSkillFromGitHubUrlEarlier(ret.url, remote, StoreBefore)

\* an install of a tree URL with a path has written a unit
C30_Witness ==
  /\ EarlierUrlInstalled
  /\ ret.ok
  /\ ret.fileCount > 1
  /\ store[ret.skillName] # StoreBefore[ret.skillName]

\* an install of a tree URL with a path was refused as the earlier one was
C30_WitnessRefused ==
  /\ EarlierUrlInstalled
  /\ ~ret.ok
  /\ ret.err.prefix \in {E_EXISTS, E_NAME_MISMATCH, E_NO_MANIFEST}

\* C31: on the Skills page forceUpdateGitHubSkill is called on a unit only
\* after previewGitHubSkillForceUpdate completed for that unit and the
\* dialog showing that unit's preview was confirmed, for every interleaving
\* of the selection of a unit with the pending preview.
C31_ForceFollowsScanOfSameUnit ==
  page.forced.shown = page.forced.unit

\* Force update is clicked on the first unit, the second unit is selected
\* while the preview is pending, the dialog that names the first unit is
\* confirmed: the second unit is overwritten and its local file is gone.
C31_OtherUnitOverwritten ==
  /\ page.forced = [unit |-> UnitNames[2], shown |-> UnitNames[1]]
  /\ <<"b.md">> \notin DOMAIN store[UnitNames[2]].files
  /\ <<"b.md">> \in DOMAIN store[UnitNames[1]].files

\* C38: the update-check result the Skills page shows for the selected unit
\* belongs to that unit, also when another unit was selected while the check
\* was pending.
C38_ResultBelongsToSelectedUnit ==
  (page.selectedGitHubSource # NoName /\ page.updateResult # NoName)
     => page.updateResult = page.selectedName

\* The check of the first unit returns after the second unit was selected
\* and loaded: the banner under the second unit shows the first unit's result.
C38_ResultOfOtherUnitShown ==
  /\ page.selectedName = UnitNames[2]
  /\ page.selectedGitHubSource = UnitNames[2]
  /\ page.selecting = {}
  /\ page.updateResult = UnitNames[1]

\* C32: a discovery that scans the children of its target sends at most one
\* file-content request per child directory, that of the child's SKILL.md
\* and only when the child's listing holds a file of that name; it requests
\* the contents of no other file, and it leaves the local store as it was.
C32_DiscoveryIsLightweight ==
  ScannedChildren =>
    LET path == UrlPath(ret.url)
        reqs == ret.requests
        children == ImmediateSubdirs(remote, path)
    IN /\ \A k \in FileRequests(reqs) :
            \E d \in children :
              /\ reqs[k].path = d \o <<SKILL_MD>>
              /\ HasSkillMarkdown(fetchGitHubDirectory(remote, d))
       /\ \A d \in children :
            Cardinality({k \in FileRequests(reqs) : IsPrefix(d, reqs[k].path)}) <= 1
       /\ NothingWritten

\* a collection was returned for a target one of whose children holds a
\* second file next to its SKILL.md, and one of whose units exists locally
C32_Witness ==
  /\ CollectionReturned
  /\ \E d \in ImmediateSubdirs(remote, UrlPath(ret.url)) :
       /\ Req("file", d \o <<SKILL_MD>>) \in Range(ret.requests)
       /\ Cardinality({q \in FilesBelow(remote, d) : TRUE}) >= 2
  /\ \E k \in DOMAIN ret.skills : ret.skills[k].alreadyInstalled

\* the walk of a target has returned its sorted file list
WalkReturned == ret # NoRet /\ ret.op = "collect" /\ ret.ok

\* C33: the file list a fetch returns holds every file of the remote tree
\* below the target path exactly once and is ordered by path, whatever the
\* order in which the concurrent directory and file requests completed: it
\* is the list the install model computes from the tree.
C33_FileListDeterministic ==
  WalkReturned =>
    LET files == ret.files
        below == FilesBelow(remote, ret.target.path)
    IN /\ \A i, j \in DOMAIN files : i # j => files[i].path # files[j].path
       /\ {files[i].path : i \in DOMAIN files} = below
       /\ \A i \in DOMAIN files :
            /\ files[i].bytes = remote[files[i].path]
            /\ files[i].sha = computeGitBlobSha(remote[files[i].path])
       /\ \A i, j \in DOMAIN files : i < j => PathLess(files[i].path, files[j].path)
       /\ files = SortByPath(SeqOfSet(collectGitHubFiles(remote, ret.target.path)))

\* a walk over nested directories returned after a file of a subdirectory
\* was pushed before a file of the directory above it
C33_Witness ==
  /\ WalkReturned
  /\ Len(ret.files) >= 3
  /\ \E i, j \in DOMAIN tasks[1].files :
       /\ i < j
       /\ Len(tasks[1].files[i].path) > Len(tasks[1].files[j].path)
       /\ PathLess(tasks[1].files[j].path, tasks[1].files[i].path)

\* loadSkills has returned the registry of the current namespace
Loaded == ret # NoRet /\ ret.op = "loadSkills"

\* the records loadSkills merged: those of the built-in skills and of the
\* directories of the namespace
BuiltinRecords == Range(loadBuiltinSkills)
UserRecords ==
  {SkillRecord("user", n,
               IF <<SKILL_MD>> \in DOMAIN store[n].files
               THEN readUserSkillFileBytes(store, n, <<SKILL_MD>>) ELSE Raw(0)) :
     n \in listUserSkillNames(store)}

\* C34: loadSkills returns exactly one record per name, sorted by name, and
\* for a name that a built-in skill and a user skill share the record is the
\* user-sourced one.
C34_UserOverridesBuiltin ==
  Loaded =>
    /\ \A i, j \in DOMAIN ret.skills :
         i < j => NameLess(ret.skills[i].name, ret.skills[j].name)
    /\ {ret.skills[i].name : i \in DOMAIN ret.skills}
         = {r.name : r \in BuiltinRecords \cup UserRecords}
    /\ \A i \in DOMAIN ret.skills :
         LET r == ret.skills[i]
         IN /\ r \in BuiltinRecords \cup UserRecords
            /\ (\E u \in UserRecords : u.name = r.name) => r.source = "user"

\* the registry holds the user skill of a built-in name next to a built-in
\* skill that no user skill shares the name of
C34_Witness ==
  /\ Loaded
  /\ store[UnitNames[1]].exists
  /\ \E i \in DOMAIN ret.skills :
       /\ ret.skills[i].name = UnitNames[1]
       /\ ret.skills[i].source = "user"
       /\ ret.skills[i].directory = UnitNames[1]
  /\ \E i \in DOMAIN ret.skills :
       ret.skills[i].name = UnitNames[2] /\ ret.skills[i].source = "builtin"

\* C40: a valid built-in skill is in the registry loadSkills returns unless
\* a user skill directory of its name exists; a user skill directory of
\* another name does not replace or hide it, whatever its SKILL.md declares.
C40_BuiltinKeptUnlessSameNameDirectory ==
  Loaded =>
    \A b \in BuiltinRecords :
      (b.valid /\ ~store[b.directory].exists) => b \in Range(ret.skills)

\* the directory foo holds a SKILL.md that declares the name of a built-in
\* skill: the registry holds foo's invalid record under that name and not
\* the built-in skill
C40_BuiltinHiddenByOtherDirectory ==
  /\ Loaded
  /\ ~store[UnitNames[2]].exists
  /\ \E i \in DOMAIN ret.skills :
       /\ ret.skills[i].name = UnitNames[2]
       /\ ret.skills[i].source = "user"
       /\ ret.skills[i].directory = "foo"
       /\ ~ret.skills[i].valid
  /\ \A i \in DOMAIN ret.skills : ret.skills[i].source = "builtin" => ret.skills[i].name # UnitNames[2]

\* C39: every unit directory that createUserSkillScaffold,
\* writeUserSkillMarkdown, install or force-update creates has a name of the
\* skill-name format (lowercase letters and digits in groups separated by
\* single hyphens, 1 to 64 characters), with no surrounding whitespace.
C39_DirectoryNamesWellFormed ==
  \A n \in DOMAIN store : store[n].exists => MatchesSkillNameRe(n)

\* what the name check of the operations does establish: the trimmed name of
\* every directory has the format
C39_TrimmedNamesWellFormed ==
  \A n \in DOMAIN store : store[n].exists => MatchesSkillNameRe(Trim(n))

\* createUserSkillScaffold or writeUserSkillMarkdown was called with a name
\* that has a leading blank: a directory of that very name exists, next to
\* the directory foo
C39_PaddedDirectoryCreated ==
  /\ store[PADDED_NAME].exists
  /\ store["foo"].exists
  /\ ~store[INVALID_NAME].exists

\* a preview of an unedited unit has returned its scan
PreviewReturned == ret # NoRet /\ ret.op = "preview" /\ ret.ok

\* C35: a preview that follows a successful install or force update with no
\* local edit in between reports no local changes: modified, missing and
\* untracked are empty and hasLocalChanges is false.
C35_PreviewCleanAfterInstall ==
  PreviewReturned =>
    /\ ret.localChanges.modified = <<>>
    /\ ret.localChanges.missing = <<>>
    /\ ret.localChanges.untracked = <<>>
    /\ ~ret.hasLocalChanges

\* what does hold of the preview of an unedited unit: nothing is modified or
\* untracked, and the only path reported missing is the reserved metadata
\* filename, when the installed bundle shipped a file of that name
C35_OnlyReservedPathMissing ==
  PreviewReturned =>
    /\ ret.localChanges.modified = <<>>
    /\ ret.localChanges.untracked = <<>>
    /\ Range(ret.localChanges.missing) \subseteq {SOURCE_METADATA_FILENAME}
    /\ ret.hasLocalChanges <=> SOURCE_METADATA_FILENAME \in TrackedPaths(ret.name)

\* the preview of a unit installed from a bundle that ships a file of the
\* reserved name reports that file missing
C35_ReservedPathReportedMissing ==
  /\ PreviewReturned
  /\ ret.hasLocalChanges
  /\ ret.localChanges.missing = <<SOURCE_METADATA_FILENAME>>
  /\ origin[ret.name] = "github"

\* the preview of a unit installed from a bundle of several files, one in a
\* subdirectory, reports no change
C35_CleanPreview ==
  /\ PreviewReturned
  /\ ~ret.hasLocalChanges
  /\ Cardinality(TrackedPaths(ret.name)) >= 3

C36_BothInstalled ==
  /\ ret.op = "batch"
  /\ Len(ret.results) = 2
  /\ Installed(ret.results[1]) /\ Installed(ret.results[2])
  /\ ret.results[1].skillName = ret.results[2].skillName
  /\ ret.results[1].fileCount = 2

\* the second install ran its existence check after the first had created
\* the directory: one installed, one skipped as a collision
C36_SecondSkipped ==
  /\ ret.op = "batch"
  /\ Len(ret.results) = 2
  /\ Installed(ret.results[1])
  /\ Skipped(ret.results[2])
  /\ isCollision(ret.results[2].message)

\* a step in which a discovery, an update check or a preview returns
ReadOnlyCallReturns == ret' # NoRet /\ ret'.op \in {"discover", "check", "preview"}

\* C37: discoverGitHubSkillInstallTarget, checkGitHubSkillUpdate and
\* previewGitHubSkillForceUpdate leave the local store as it was, whether
\* they succeed or fail: the units, their files and their sidecars are the
\* same after the call as before it.
C37_ReadOnlyOperations ==
  [][ReadOnlyCallReturns => (store' = store /\ origin' = origin)]_vars

\* an update check or a preview of a unit that does not exist has failed
\* and the unit still does not exist
C37_Witness ==
  /\ ret.op \in {"check", "preview"}
  /\ ~ret.ok
  /\ ret.err.prefix = E_NOT_TRACKED
  /\ ~store[ret.name].exists

\* a discovery has returned a collection next to an installed unit
C37_WitnessDiscovery ==
  /\ ret.op = "discover"
  /\ ret.ok
  /\ \E n \in Names : store[n].exists

====
